---- MODULE Spec2Model ----
(***************************************************************************)
(* A model of the blackjack protocol of TheHouseAlwaysACKs: one session    *)
(* worker of the server (server.py: handle_client / play_one_round), the   *)
(* client's play_session (client.py), the TCP stream between them, the     *)
(* card engine they call (blackjack.py) and the wire codec (common.py),    *)
(* together with the server's shutdown (run_server._shutdown).             *)
(*                                                                         *)
(* Strings of the programs that are inspected byte by byte (the decision   *)
(* text) are sequences of one-character strings; NUL is the byte 0.        *)
(* Console output (print, print_game_state) changes no state and is left   *)
(* out.  The client's SIGINT handler is signal plumbing outside the core:  *)
(* the client's _running flag keeps its initial value True.                *)
(***************************************************************************)
EXTENDS Integers, Sequences, FiniteSets, TLC

(***************************************************************************)
(* Bounds of the model.                                                    *)
(***************************************************************************)
\* rounds a Request asks for: 0..MaxRounds (the wire field is a u8)
MaxRounds == 2
\* random.shuffle is drawn from the first NumShuffles orders of Shuffled
NumShuffles == 4
\* connections the accept loop of run_server takes in a run
MaxConns == 2
\* SIGINTs delivered to the server in a run
MaxSigints == 2
\* cards in a Hand whose value is computed on its own
MaxHand == 4
\* bytes of the name field in the model ("length: int = 32" of pad_name);
\* names have up to NameLen + 1 characters
NameLen == 3

(***************************************************************************)
(* blackjack.py: constants.                                                *)
(***************************************************************************)
SUITS == <<"Hearts", "Diamonds", "Clubs", "Spades">>
VALUES == <<"A", "2", "3", "4", "5", "6", "7", "8", "9", "10", "J", "Q", "K">>

BLACKJACK == 21
DEALER_MAX == 17
ROYALTY_VALUE == 10
ACE_VALUE == 11

RESULT_NOT_OVER == 0
RESULT_TIE == 1
RESULT_LOSS == 2
RESULT_WIN == 3

\* Python's None where a Card is expected (deal_card, card_from_wire, the
\* card argument of send_server_payload)
None == [value |-> "None", suit |-> "None"]

(***************************************************************************)
(* common.py: protocol constants.  The cookie 0xABCDDCBA does not fit a    *)
(* 32-bit signed integer: it is kept as its two 16-bit halves.             *)
(***************************************************************************)
MAGIC_COOKIE == <<43981, 56506>>
MSG_OFFER == 2
MSG_REQUEST == 3
MSG_PAYLOAD == 4

\* another 32-bit value and another type tag, for traffic that is not ours
BAD_COOKIE == <<57005, 48879>>

NUL == "\\0"
\* a byte that is not valid UTF-8
XFF == "\\xff"
Hittt == <<"H", "i", "t", "t", "t">>
Stand == <<"S", "t", "a", "n", "d">>

(***************************************************************************)
(* blackjack.py: Card, Deck.                                               *)
(***************************************************************************)
Card(value, suit) == [value |-> value, suit |-> suit]

\* Deck.__init__ before the shuffle: suit-major, A..K within a suit
NewDeck ==
    [n \in 1..(Len(SUITS) * Len(VALUES)) |->
        Card(VALUES[((n - 1) % Len(VALUES)) + 1], SUITS[((n - 1) \div Len(VALUES)) + 1])]

\* random.shuffle: the k-th order, an affine permutation of the positions
\* (stride coprime to 52, so every card occurs exactly once)
Strides == <<1, 3, 5, 7, 9, 11, 15, 17, 19, 21, 23, 25>>
Shuffled(k) ==
    LET n == Len(NewDeck)
        stride == Strides[(k % Len(Strides)) + 1]
        offset == (3 + k * Len(VALUES)) % n
    IN  [j \in 1..n |-> NewDeck[((stride * (j - 1) + offset) % n) + 1]]

\* a deck that reports empty once the opening deal has been taken from it
DealCard_OpeningOnly(cards) == IF Len(cards) > 48 THEN cards[Len(cards)] ELSE None

\* Deck.deal_card: list.pop() takes the last card; None on an empty deck
DealCard(cards) == IF Len(cards) > 0 THEN cards[Len(cards)] ELSE None
\* a deal that leaves the card in the deck
DealRest_Keep(cards) == cards

DealRest(cards) == IF Len(cards) > 0 THEN SubSeq(cards, 1, Len(cards) - 1) ELSE cards

(***************************************************************************)
(* blackjack.py: Hand.calculate_value, Player, Dealer.                     *)
(***************************************************************************)
\* int(card.value) for "2".."10"
IntOfValue(v) == CHOOSE n \in 2..10 : VALUES[n] = v

CardPoints(c) ==
    IF c.value \in {"J", "Q", "K"} THEN ROYALTY_VALUE
    ELSE IF c.value = "A" THEN ACE_VALUE
    ELSE IntOfValue(c.value)

RECURSIVE SumPoints(_)
SumPoints(cards) ==
    IF cards = <<>> THEN 0 ELSE CardPoints(Head(cards)) + SumPoints(Tail(cards))

CountAces(cards) == Cardinality({n \in 1..Len(cards) : cards[n].value = "A"})

\* a loop that demotes every ace of a hand above 21
Demote_All(total, aces) ==
    IF total > BLACKJACK /\ aces > 0 THEN total - ROYALTY_VALUE * aces ELSE total

\* the loop "while total > BLACKJACK and aces > 0"
RECURSIVE Demote(_, _)
Demote(total, aces) ==
    IF total > BLACKJACK /\ aces > 0 THEN Demote(total - ROYALTY_VALUE, aces - 1) ELSE total

calculate_value(cards) == Demote(SumPoints(cards), CountAces(cards))

is_busted(cards) == calculate_value(cards) > BLACKJACK

\* a slip: the dealer still draws on 17
should_hit_On17(cards) == calculate_value(cards) <= DEALER_MAX

should_hit(cards) == calculate_value(cards) < DEALER_MAX

(***************************************************************************)
(* blackjack.py: BlackJackGame.final_result.                               *)
(***************************************************************************)
\* a slip in the comparison: equal totals reported as a win
final_result_TieWins(pcards, dcards) ==
    LET p == calculate_value(pcards)
        d == calculate_value(dcards)
    IN  IF p > BLACKJACK THEN RESULT_LOSS
        ELSE IF d > BLACKJACK THEN RESULT_WIN
        ELSE IF p >= d THEN RESULT_WIN
        ELSE RESULT_LOSS

final_result(pcards, dcards) ==
    LET p == calculate_value(pcards)
        d == calculate_value(dcards)
    IN  IF p > BLACKJACK THEN RESULT_LOSS
        ELSE IF d > BLACKJACK THEN RESULT_WIN
        ELSE IF p > d THEN RESULT_WIN
        ELSE IF d > p THEN RESULT_LOSS
        ELSE RESULT_TIE

\* BlackJackGame.reveal_dealer_hidden
reveal_dealer_hidden(dcards) == IF Len(dcards) > 1 THEN dcards[2] ELSE None

(***************************************************************************)
(* blackjack.py: BlackJackGame, as the record of its deck and two hands.   *)
(***************************************************************************)
\* no game object: outside play_one_round
NoGame == [deck |-> <<>>, player |-> <<>>, dealer |-> <<>>]

\* BlackJackGame.__init__ with the k-th shuffle
BlackJackGame(k) == [deck |-> Shuffled(k), player |-> <<>>, dealer |-> <<>>]

\* self.player.draw_card(self.deck.deal_card())
PlayerDraw(g) ==
    [g EXCEPT !.player = Append(@, DealCard(g.deck)), !.deck = DealRest(g.deck)]

\* self.dealer.draw_card(self.deck.deal_card())
DealerDraw(g) ==
    [g EXCEPT !.dealer = Append(@, DealCard(g.deck)), !.deck = DealRest(g.deck)]

\* BlackJackGame.start_game: twice, one card to the player then one to the dealer
start_game(g) == DealerDraw(PlayerDraw(DealerDraw(PlayerDraw(g))))

\* a slip: the bust test looks at the hand before the new card is in it
player_hit_StaleBust(g) ==
    IF DealCard(g.deck) = None
    THEN [game |-> g, card |-> None, state |-> RESULT_NOT_OVER]
    ELSE [game |-> PlayerDraw(g), card |-> DealCard(g.deck),
          state |-> IF is_busted(g.player) THEN RESULT_LOSS ELSE RESULT_NOT_OVER]

\* BlackJackGame.player_hit: the game after it, and the (card, state) it returns
player_hit(g) ==
    IF DealCard(g.deck) = None
    THEN [game |-> g, card |-> None, state |-> RESULT_NOT_OVER]
    ELSE [game |-> PlayerDraw(g), card |-> DealCard(g.deck),
          state |-> IF is_busted(PlayerDraw(g).player) THEN RESULT_LOSS ELSE RESULT_NOT_OVER]

\* BlackJackGame.dealer_hit
dealer_hit(g) ==
    IF DealCard(g.deck) = None
    THEN [game |-> g, card |-> None, state |-> RESULT_NOT_OVER]
    ELSE [game |-> DealerDraw(g), card |-> DealCard(g.deck),
          state |-> IF is_busted(DealerDraw(g).dealer) THEN RESULT_WIN ELSE RESULT_NOT_OVER]

(***************************************************************************)
(* common.py: the wire codec.                                              *)
(***************************************************************************)
\* card_to_wire: (rank 1..13, suit code 0..3)
SuitCode(suit) ==
    IF \E n \in 1..Len(SUITS) : SUITS[n] = suit
    THEN (CHOOSE n \in 1..Len(SUITS) : SUITS[n] = suit) - 1
    ELSE 0

card_to_wire(c) ==
    LET rank == IF c.value = "A" THEN 1
                ELSE IF c.value = "J" THEN 11
                ELSE IF c.value = "Q" THEN 12
                ELSE IF c.value = "K" THEN 13
                ELSE IntOfValue(c.value)
    IN  <<rank, SuitCode(c.suit)>>

\* card_from_wire: None for rank 0; an unknown suit code reads as Hearts.
\* str(rank) is a card value only for 2..10: Card() raises ValueError otherwise.
Invalid == [value |-> "ValueError", suit |-> "ValueError"]
card_from_wire(rank, suit_code) ==
    IF rank = 0 THEN None
    ELSE LET suit == IF suit_code \in 0..(Len(SUITS) - 1) THEN SUITS[suit_code + 1] ELSE "Hearts"
         IN  IF rank = 1 THEN Card("A", suit)
             ELSE IF rank = 11 THEN Card("J", suit)
             ELSE IF rank = 12 THEN Card("Q", suit)
             ELSE IF rank = 13 THEN Card("K", suit)
             ELSE IF rank \in 2..10 THEN Card(VALUES[rank], suit)
             ELSE Invalid

\* struct "5s": the text cut or NUL-padded to five bytes
Pack5(text) == [n \in 1..5 |-> IF n <= Len(text) THEN text[n] ELSE NUL]

\* bytes.decode(...).strip("\x00"): NULs removed at both ends
RECURSIVE StripLeft(_)
StripLeft(s) == IF s # <<>> /\ Head(s) = NUL THEN StripLeft(Tail(s)) ELSE s
RECURSIVE StripRight(_)
StripRight(s) ==
    IF s # <<>> /\ s[Len(s)] = NUL THEN StripRight(SubSeq(s, 1, Len(s) - 1)) ELSE s
StripNul(s) == StripRight(StripLeft(s))

\* bytes.decode("utf-8", errors="ignore"): the invalid bytes are dropped
Decode(raw) == SelectSeq(raw, LAMBDA b : b # XFF)

\* the characters of a name: ASCII letters, U+0000, and a character whose
\* UTF-8 form has two bytes, a lead byte and a continuation byte
WIDE == "\\u00e9"
LEAD == "\\xc3"
CONT == "\\xa9"
NameChars == {"a", "b", WIDE, NUL}

\* str.encode("utf-8")
RECURSIVE Encode(_)
Encode(name) ==
    IF name = <<>> THEN <<>>
    ELSE (IF Head(name) = WIDE THEN <<LEAD, CONT>> ELSE <<Head(name)>>) \o Encode(Tail(name))

\* bytes.decode("utf-8", errors="ignore") of name bytes: a lead byte with
\* its continuation byte is the wide character, a byte that is neither is
\* itself, and a lead byte or a continuation byte on its own is dropped
RECURSIVE DecodeUtf8(_)
DecodeUtf8(raw) ==
    IF raw = <<>> THEN <<>>
    ELSE IF Head(raw) = LEAD
    THEN IF Len(raw) >= 2 /\ raw[2] = CONT
         THEN <<WIDE>> \o DecodeUtf8(Tail(Tail(raw)))
         ELSE DecodeUtf8(Tail(raw))
    ELSE IF Head(raw) = CONT THEN DecodeUtf8(Tail(raw))
    ELSE <<Head(raw)>> \o DecodeUtf8(Tail(raw))

\* pad_name: name.encode("utf-8", errors="ignore")[:length].ljust(length, b"\x00")
pad_name(name) ==
    LET enc == Encode(name)
        raw == SubSeq(enc, 1, IF Len(enc) < NameLen THEN Len(enc) ELSE NameLen)
    IN  raw \o [n \in 1..(NameLen - Len(raw)) |-> NUL]

\* raw.split(b"\x00", 1)[0]: the bytes before the first zero byte
RECURSIVE SplitNul(_)
SplitNul(raw) ==
    IF raw = <<>> \/ Head(raw) = NUL THEN <<>> ELSE <<Head(raw)>> \o SplitNul(Tail(raw))

\* a decode_name that strips the padding and keeps what follows a zero byte
decode_name_Strip(raw32) == DecodeUtf8(StripRight(raw32))

\* decode_name: raw32.split(b"\x00", 1)[0].decode("utf-8", errors="ignore")
decode_name(raw32) == DecodeUtf8(SplitNul(raw32))

\* what the codec variables hold before a decode
NotDecoded == <<NUL>>
NoCardBack == [value |-> "?", suit |-> "?"]

\* REQUEST_STRUCT, CLIENT_PAYLOAD_STRUCT, SERVER_PAYLOAD_STRUCT
RequestMsg(cookie, type, n) == [cookie |-> cookie, type |-> type, rounds |-> n]
DecisionMsg(cookie, type, text) == [cookie |-> cookie, type |-> type, decision |-> Pack5(text)]
PayloadMsg(cookie, type, res, rank, suit) ==
    [cookie |-> cookie, type |-> type, result |-> res, rank |-> rank, suit |-> suit]

\* a send_server_payload that numbers the ranks from 0
ServerPayload_ZeroBased(res, c) ==
    LET w == IF c = None THEN <<0, 0>> ELSE <<card_to_wire(c)[1] - 1, card_to_wire(c)[2]>>
    IN  PayloadMsg(MAGIC_COOKIE, MSG_PAYLOAD, res, w[1], w[2])

\* server.py send_server_payload: the message for (result, card)
ServerPayload(res, c) ==
    LET w == IF c = None THEN <<0, 0>> ELSE card_to_wire(c)
    IN  PayloadMsg(MAGIC_COOKIE, MSG_PAYLOAD, res, w[1], w[2])

(***************************************************************************)
(* State.                                                                  *)
(***************************************************************************)
VARIABLES
    \* server.py, the session worker (handle_client and play_one_round)
    spc,            \* where the worker is
    rounds,         \* handle_client: rounds, from the Request
    round_idx,      \* play_one_round: round_idx (r of the for loop)
    game,           \* play_one_round: game (deck, player hand, dealer hand)
    card,           \* play_one_round: card, of "card, state = game.*_hit()"
    state,          \* play_one_round: state
    decision_raw,   \* play_one_round: decision_raw, as unpacked
    conn,           \* the accepted socket: "open" or "closed"
    outcome,        \* how handle_client left its try block
    \* server.py, run_server
    stop_evt,       \* threading.Event stop_evt
    shut_pc,        \* where _shutdown is
    \* client.py, play_session
    cpc,            \* where play_session is
    c_rounds,       \* play_session: rounds
    c_r,            \* play_session: r
    c_i,            \* play_session: i, of the three initial payloads
    player_hand,    \* play_session: player_hand
    dealer_hand,    \* play_session: dealer_hand
    decision,       \* play_session: decision
    result,         \* play_session: result
    wins,           \* play_session: wins
    played,         \* play_session: played
    tcp,            \* the client's socket: "open" or "closed"
    \* the TCP stream: whole messages in flight, in order
    c2s,
    s2c,
    \* history, read by the properties only
    sent,           \* the payloads the server sent in its current round
    decided,        \* the decisions the server took in its current round
    closed          \* the rounds the server completed and the client has not

VARIABLES
    \* server.py, run_server: the main thread
    mpc,                    \* where run_server is
    frames,                 \* the calls of _shutdown on the main thread's stack
    sigints,                \* SIGINTs delivered so far
    shutdown_printed_evt,   \* threading.Event shutdown_printed_evt
    printed,                \* times "Server shutting down gracefully..." was printed
    listener,               \* the listening socket (tcp of run_server)
    sockets_lock,           \* threading.Lock sockets_lock: "free" or its holder
    sockets_set,            \* the registry of live connections
    m_conn,                 \* conn of the accept loop (0: none)
    \* server.py, handle_client: one worker thread per accepted connection
    w_pc,                   \* where the worker is ("none": no such thread)
    w_conn,                 \* the worker's socket: "none", "open" or "closed"
    w_rounds,               \* rounds
    w_r,                    \* r of the for loop
    w_game,                 \* game of play_one_round
    w_sent,                 \* payloads sent in the current round
    w_log,                  \* the lines handle_client printed
    w_exit                  \* how the worker left its try block

VARIABLES
    \* server.py, broadcast_offers: the discovery thread
    bpc,            \* where broadcast_offers is ("idle": not started)
    udp,            \* its socket: "none", "open" or "closed"
    port,           \* run_server: port, of the listening socket
    b_last,         \* how the last sendto ended: "none", "sent" or "failed"
    \* UDP port UDP_PORT_OFFERS as the client hears it: the datagram to read
    air,
    \* client.py, listen_for_offer
    l_offer         \* the Offer it returned (None: none yet)

VARIABLES
    \* blackjack.py, a Hand on its own
    h_cards,        \* Hand.cards
    h_value         \* what calculate_value returned for it (-1: not called)

VARIABLES
    \* common.py, the codec on its own
    n_name,         \* a name, as its characters
    n_wire,         \* pad_name(name): the bytes of the name field (<<>>: not packed)
    n_back,         \* decode_name of those bytes (None: not decoded)
    k_card,         \* a Card (None: none chosen)
    k_wire,         \* card_to_wire(card): <<rank, suit code>>
    k_back          \* card_from_wire of that pair (None: not decoded)

offerVars == <<bpc, udp, port, b_last, air, l_offer>>
handVars == <<h_cards, h_value>>
codecVars == <<n_name, n_wire, n_back, k_card, k_wire, k_back>>
mainVars == <<mpc, frames, sigints, shutdown_printed_evt, printed, listener, sockets_lock, sockets_set, m_conn>>
workerVars == <<w_pc, w_conn, w_rounds, w_r, w_game, w_sent, w_log, w_exit>>
runVars == <<mainVars, workerVars, offerVars, handVars, codecVars>>

srvVars == <<spc, rounds, round_idx, game, card, state, decision_raw, conn, outcome>>
shutVars == <<stop_evt, shut_pc>>
cliVars == <<cpc, c_rounds, c_r, c_i, player_hand, dealer_hand, decision, result, wins, played, tcp>>
netVars == <<c2s, s2c>>
histVars == <<sent, decided, closed>>
vars == <<srvVars, shutVars, cliVars, netVars, histVars, runVars>>

\* client.py: _running, never cleared without the SIGINT handler
c_running == TRUE

\* the connections of a run, in the order accept returns them
Conns == 1..MaxConns

\* the ports tcp.getsockname() may report for "tcp.bind(("", 0))"
Ports == 49152..49153

\* the discovery thread at position b, the server bound to a port of P, and
\* nothing heard by the client
InitDiscovery(b, P) ==
    /\ bpc = b
    /\ udp = "none"
    /\ port \in P
    /\ b_last = "none"
    /\ air = <<>>
    /\ l_offer = None

\* run_server up to the accept loop: the listening socket is bound, the
\* handler installed, no connection yet
InitThreads ==
    /\ mpc = "loop"
    /\ frames = <<>>
    /\ sigints = 0
    /\ shutdown_printed_evt = FALSE
    /\ printed = 0
    /\ listener = "open"
    /\ sockets_lock = "free"
    /\ sockets_set = {}
    /\ m_conn = 0
    /\ w_pc = [w \in Conns |-> "none"]
    /\ w_conn = [w \in Conns |-> "none"]
    /\ w_rounds = [w \in Conns |-> 0]
    /\ w_r = [w \in Conns |-> 0]
    /\ w_game = [w \in Conns |-> NoGame]
    /\ w_sent = [w \in Conns |-> 0]
    /\ w_log = [w \in Conns |-> <<>>]
    /\ w_exit = [w \in Conns |-> "running"]

\* nothing handed to the codec yet
InitCodec ==
    /\ n_name = <<>> /\ n_wire = <<>> /\ n_back = NotDecoded
    /\ k_card = None /\ k_wire = <<0, 0>> /\ k_back = NoCardBack

\* Hand(): no cards
InitHand == h_cards = <<>> /\ h_value = -1 /\ InitCodec

\* the same with the discovery thread left out
InitRun == InitThreads /\ InitDiscovery("idle", {49152}) /\ InitHand

\* one session, as handle_client enters its try block, with the client at c
InitSessionFrom(c) ==
    /\ spc = "req_check"
    /\ rounds = 0
    /\ round_idx = 0
    /\ game = NoGame
    /\ card = None
    /\ state = RESULT_NOT_OVER
    /\ decision_raw = <<>>
    /\ conn = "open"
    /\ outcome = "running"
    /\ stop_evt = FALSE
    /\ shut_pc = "idle"
    /\ cpc = c
    /\ c_rounds \in 0..MaxRounds
    /\ c_r = 0
    /\ c_i = 0
    /\ player_hand = <<>>
    /\ dealer_hand = <<>>
    /\ decision = <<>>
    /\ result = RESULT_NOT_OVER
    /\ wins = 0
    /\ played = 0
    /\ tcp = "open"
    /\ c2s = <<>>
    /\ s2c = <<>>
    /\ sent = <<>>
    /\ decided = <<>>
    /\ closed = <<>>

\* one session, as handle_client and play_session enter their try blocks
InitSession == InitSessionFrom("send_request")

Init == InitSession /\ InitRun

(***************************************************************************)
(* server.py: the session worker.                                          *)
(***************************************************************************)
\* sock.sendall on the accepted socket: the message joins the stream (it is
\* dropped when the peer's end is closed already)
Deliver(msg) ==
    /\ s2c' = IF tcp = "open" THEN Append(s2c, msg) ELSE s2c
    /\ sent' = Append(sent, msg)

\* an exception leaves play_one_round: "except (ConnectionError, OSError)" of
\* handle_client, which prints "Client disconnected" unless stop_evt is set
Raise ==
    /\ spc' = "finally"
    /\ outcome' = IF stop_evt THEN "quiet" ELSE "disconnected"
    /\ game' = NoGame
    /\ card' = None
    /\ state' = RESULT_NOT_OVER
    /\ UNCHANGED <<rounds, round_idx, conn>>

\* "return" of handle_client before any round
Return ==
    /\ spc' = "finally"
    /\ outcome' = "silent"
    /\ UNCHANGED <<rounds, round_idx, game, card, state, conn>>

\* what the history keeps of a completed round
RoundRecord(last) ==
    [idx |-> round_idx, player |-> game.player, dealer |-> game.dealer,
     result |-> last.result, decided |-> decided, sent |-> Append(sent, last)]

\* a slip in the loop bound: the last round asked for is never played
EndRound_OneShort(last) ==
    /\ IF round_idx + 1 < rounds
       THEN /\ round_idx' = round_idx + 1
            /\ spc' = "start_round"
            /\ outcome' = outcome
       ELSE /\ round_idx' = round_idx
            /\ spc' = "finally"
            /\ outcome' = "finished"
    /\ game' = NoGame
    /\ card' = None
    /\ state' = RESULT_NOT_OVER
    /\ closed' = Append(closed, RoundRecord(last))
    /\ UNCHANGED <<rounds, conn>>

\* play_one_round returns after sending `last`: the for loop of handle_client
\* goes on to the next round, or prints "Finished; closing"
EndRound(last) ==
    /\ IF round_idx < rounds
       THEN /\ round_idx' = round_idx + 1
            /\ spc' = "start_round"
            /\ outcome' = outcome
       ELSE /\ round_idx' = round_idx
            /\ spc' = "finally"
            /\ outcome' = "finished"
    /\ game' = NoGame
    /\ card' = None
    /\ state' = RESULT_NOT_OVER
    /\ closed' = Append(closed, RoundRecord(last))
    /\ UNCHANGED <<rounds, conn>>

\* recv_exact, top of its loop: "if stop_event.is_set(): return None"
SRecvCheck ==
    /\ UNCHANGED decision_raw
    /\ spc \in {"req_check", "dec_check"}
    /\ IF stop_evt
       THEN IF spc = "req_check" THEN Return ELSE Raise
       ELSE /\ spc' = IF spc = "req_check" THEN "req_wait" ELSE "dec_wait"
            /\ UNCHANGED <<rounds, round_idx, game, card, state, conn, outcome>>
    /\ UNCHANGED <<shutVars, runVars, cliVars, netVars, histVars>>

\* recv_exact: sock.recv times out with nothing to read, "continue"
SRecvTimeout ==
    /\ UNCHANGED decision_raw
    /\ spc \in {"req_wait", "dec_wait"}
    /\ conn = "open"
    /\ c2s = <<>>
    /\ tcp = "open"
    /\ spc' = IF spc = "req_wait" THEN "req_check" ELSE "dec_check"
    /\ UNCHANGED <<rounds, round_idx, game, card, state, conn, outcome>>
    /\ UNCHANGED <<shutVars, runVars, cliVars, netVars, histVars>>

\* recv_exact returns None: OSError on a socket _shutdown closed, or the
\* peer closed its end and nothing is left to read.  handle_client returns
\* on a missing Request; play_one_round raises ConnectionError.
SRecvNone ==
    /\ UNCHANGED decision_raw
    /\ spc \in {"req_wait", "dec_wait"}
    /\ conn = "closed" \/ (c2s = <<>> /\ tcp = "closed")
    /\ IF spc = "req_wait" THEN Return ELSE Raise
    /\ UNCHANGED <<shutVars, runVars, cliVars, netVars, histVars>>

\* handle_client: the Request arrives; header and round count are checked
SRecvRequest ==
    /\ UNCHANGED decision_raw
    /\ spc = "req_wait"
    /\ conn = "open"
    /\ c2s # <<>>
    /\ c2s' = Tail(c2s)
    /\ LET req == Head(c2s)
       IN  IF req.cookie # MAGIC_COOKIE \/ req.type # MSG_REQUEST
           THEN Return
           ELSE IF req.rounds <= 0
           THEN Return
           ELSE /\ rounds' = req.rounds
                /\ round_idx' = 1
                /\ spc' = "start_round"
                /\ UNCHANGED <<game, card, state, conn, outcome>>
    /\ UNCHANGED <<shutVars, runVars, cliVars, s2c, histVars>>

\* play_one_round: game = BlackJackGame(player_name); game.start_game(); the
\* locals of the call are fresh
SStartRound ==
    /\ spc = "start_round"
    /\ \E k \in 0..(NumShuffles - 1) : game' = start_game(BlackJackGame(k))
    /\ spc' = "send_p1"
    /\ sent' = <<>>
    /\ decided' = <<>>
    /\ decision_raw' = <<>>
    /\ UNCHANGED <<rounds, round_idx, card, state, conn, outcome>>
    /\ UNCHANGED <<shutVars, runVars, cliVars, netVars, closed>>

\* a slip: the dealer's second card goes out as the visible one
InitialCard_Hidden(pc) ==
    IF pc = "send_p1" THEN game.player[1]
    ELSE IF pc = "send_p2" THEN game.player[2]
    ELSE game.dealer[2]

\* the three initial payloads: p_cards[0], p_cards[1], d_cards[0]
InitialCard(pc) ==
    IF pc = "send_p1" THEN game.player[1]
    ELSE IF pc = "send_p2" THEN game.player[2]
    ELSE game.dealer[1]

SSendInitial ==
    /\ UNCHANGED decision_raw
    /\ spc \in {"send_p1", "send_p2", "send_d1"}
    /\ conn = "open"
    /\ Deliver(ServerPayload(RESULT_NOT_OVER, InitialCard(spc)))
    /\ spc' = IF spc = "send_p1" THEN "send_p2"
              ELSE IF spc = "send_p2" THEN "send_d1"
              ELSE "loop"
    /\ UNCHANGED <<rounds, round_idx, game, card, state, conn, outcome>>
    /\ UNCHANGED <<shutVars, runVars, cliVars, c2s, decided, closed>>

\* "while not stop_evt.is_set():" of the player decisions loop; when the flag
\* is set the loop is left and the code below it (the reveal) runs
SLoop ==
    /\ UNCHANGED decision_raw
    /\ spc = "loop"
    /\ spc' = IF stop_evt THEN "reveal" ELSE "dec_check"
    /\ UNCHANGED <<rounds, round_idx, game, card, state, conn, outcome>>
    /\ UNCHANGED <<shutVars, runVars, cliVars, netVars, histVars>>

\* a slip: any text that begins with "Hit" counts as a hit
DecisionOf_Prefix(raw) ==
    LET d == StripNul(Decode(raw))
    IN  IF Len(d) >= 3 /\ SubSeq(d, 1, 3) = SubSeq(Hittt, 1, 3) THEN Hittt ELSE Stand

\* the decision text as play_one_round reads it: decoded, NULs stripped, and
\* "Stand" for anything that is neither "Hittt" nor "Stand"
DecisionOf(raw) ==
    LET d == StripNul(Decode(raw))
    IN  IF d \in {Hittt, Stand} THEN d ELSE Stand

\* a Decision arrives: header check ("continue"), the text, and for a hit
\* game.player_hit()
SRecvDecision ==
    /\ spc = "dec_wait"
    /\ conn = "open"
    /\ c2s # <<>>
    /\ c2s' = Tail(c2s)
    /\ decision_raw' = Head(c2s).decision
    /\ LET msg == Head(c2s)
           hit == player_hit(game)
       IN  IF msg.cookie # MAGIC_COOKIE \/ msg.type # MSG_PAYLOAD
           THEN /\ spc' = "loop"
                /\ UNCHANGED <<game, card, state, decided>>
           ELSE /\ decided' = Append(decided, DecisionOf(msg.decision))
                /\ IF DecisionOf(msg.decision) = Stand
                   THEN /\ spc' = "reveal"
                        /\ UNCHANGED <<game, card, state>>
                   ELSE /\ game' = hit.game
                        /\ card' = hit.card
                        /\ state' = hit.state
                        /\ spc' = IF hit.card = None THEN "reveal" ELSE "send_hit"
    /\ UNCHANGED <<rounds, round_idx, conn, outcome>>
    /\ UNCHANGED <<shutVars, runVars, cliVars, s2c, sent, closed>>

\* a server that sends the card of a hit only when it ends the round
SSendHit_OnlyBust ==
    /\ UNCHANGED decision_raw
    /\ spc = "send_hit"
    /\ conn = "open"
    /\ IF state = RESULT_LOSS
       THEN /\ Deliver(ServerPayload(state, card))
            /\ EndRound(ServerPayload(state, card))
       ELSE /\ spc' = "loop"
            /\ UNCHANGED <<s2c, sent>>
            /\ UNCHANGED <<rounds, round_idx, game, card, state, conn, outcome, closed>>
    /\ UNCHANGED <<shutVars, runVars, cliVars, c2s, decided>>

\* send_server_payload(conn, state, card) after a hit; a bust returns
SSendHit ==
    /\ UNCHANGED decision_raw
    /\ spc = "send_hit"
    /\ conn = "open"
    /\ Deliver(ServerPayload(state, card))
    /\ IF state = RESULT_LOSS
       THEN EndRound(ServerPayload(state, card))
       ELSE /\ spc' = "loop"
            /\ UNCHANGED <<rounds, round_idx, game, card, state, conn, outcome, closed>>
    /\ UNCHANGED <<shutVars, runVars, cliVars, c2s, decided>>

\* hidden = game.reveal_dealer_hidden(); sent when it is not None
SReveal ==
    /\ UNCHANGED decision_raw
    /\ spc = "reveal"
    /\ IF reveal_dealer_hidden(game.dealer) # None
       THEN /\ conn = "open"
            /\ Deliver(ServerPayload(RESULT_NOT_OVER, reveal_dealer_hidden(game.dealer)))
       ELSE UNCHANGED <<s2c, sent>>
    /\ spc' = "dealer_loop"
    /\ UNCHANGED <<rounds, round_idx, game, card, state, conn, outcome>>
    /\ UNCHANGED <<shutVars, runVars, cliVars, c2s, decided, closed>>

\* "while not stop_evt.is_set() and game.dealer_should_hit():" and, inside,
\* game.dealer_hit(); the loop is left for final_result otherwise
SDealerLoop ==
    /\ UNCHANGED decision_raw
    /\ spc = "dealer_loop"
    /\ LET hit == dealer_hit(game)
       IN  IF ~stop_evt /\ should_hit(game.dealer)
           THEN /\ game' = hit.game
                /\ card' = hit.card
                /\ state' = hit.state
                /\ spc' = IF hit.card = None THEN "send_final" ELSE "send_dealer"
           ELSE /\ spc' = "send_final"
                /\ UNCHANGED <<game, card, state>>
    /\ UNCHANGED <<rounds, round_idx, conn, outcome>>
    /\ UNCHANGED <<shutVars, runVars, cliVars, netVars, histVars>>

\* send_server_payload(conn, state, card) after a dealer hit; a bust returns
SSendDealer ==
    /\ UNCHANGED decision_raw
    /\ spc = "send_dealer"
    /\ conn = "open"
    /\ Deliver(ServerPayload(state, card))
    /\ IF state = RESULT_WIN
       THEN EndRound(ServerPayload(state, card))
       ELSE /\ spc' = "dealer_loop"
            /\ UNCHANGED <<rounds, round_idx, game, card, state, conn, outcome, closed>>
    /\ UNCHANGED <<shutVars, runVars, cliVars, c2s, decided>>

\* result = game.final_result(); send_server_payload(conn, result, None)
SSendFinal ==
    /\ UNCHANGED decision_raw
    /\ spc = "send_final"
    /\ conn = "open"
    /\ Deliver(ServerPayload(final_result(game.player, game.dealer), None))
    /\ EndRound(ServerPayload(final_result(game.player, game.dealer), None))
    /\ UNCHANGED <<shutVars, runVars, cliVars, c2s, decided>>

\* sock.sendall raises OSError: the socket was closed by _shutdown, or the
\* peer is gone
SSendFails ==
    /\ UNCHANGED decision_raw
    /\ spc \in {"send_p1", "send_p2", "send_d1", "send_hit", "reveal", "send_dealer", "send_final"}
    /\ spc = "reveal" => reveal_dealer_hidden(game.dealer) # None
    /\ conn = "closed" \/ tcp = "closed"
    /\ Raise
    /\ UNCHANGED <<shutVars, runVars, cliVars, netVars, histVars>>

\* finally: sockets_set.discard(conn); conn.close()
SFinally ==
    /\ UNCHANGED decision_raw
    /\ spc = "finally"
    /\ spc' = "done"
    /\ conn' = "closed"
    /\ UNCHANGED <<rounds, round_idx, game, card, state, outcome>>
    /\ UNCHANGED <<shutVars, runVars, cliVars, netVars, histVars>>

Server ==
    \/ SRecvCheck \/ SRecvTimeout \/ SRecvNone \/ SRecvRequest
    \/ SStartRound \/ SSendInitial \/ SLoop \/ SRecvDecision \/ SSendHit
    \/ SReveal \/ SDealerLoop \/ SSendDealer \/ SSendFinal \/ SSendFails
    \/ SFinally

(***************************************************************************)
(* server.py: run_server, the shutdown.                                    *)
(***************************************************************************)
\* _sigint_handler -> _shutdown: stop_evt.set()
ShutdownSignal ==
    /\ shut_pc = "idle"
    /\ stop_evt' = TRUE
    /\ shut_pc' = "closing"
    /\ UNCHANGED <<srvVars, cliVars, netVars, histVars, runVars>>

\* _shutdown: every socket of sockets_set is shut down and closed
ShutdownClose ==
    /\ UNCHANGED decision_raw
    /\ shut_pc = "closing"
    /\ shut_pc' = "done"
    /\ conn' = "closed"
    /\ UNCHANGED <<spc, rounds, round_idx, game, card, state, outcome, stop_evt>>
    /\ UNCHANGED <<cliVars, netVars, histVars, runVars>>

Shutdown == ShutdownSignal \/ ShutdownClose

(***************************************************************************)
(* client.py: play_session.                                                *)
(***************************************************************************)
\* tcp.sendall: the message joins the stream (dropped when the server's end
\* is closed already)
ClientDeliver(msg) == c2s' = IF conn = "open" THEN Append(c2s, msg) ELSE c2s

\* recv_payload: None for a payload with a wrong cookie or type
recv_payload(raw) ==
    IF raw.cookie # MAGIC_COOKIE \/ raw.type # MSG_PAYLOAD THEN None ELSE raw

\* hand.add_card(card) "if card is not None"
AddCard(hand, c) == IF c = None THEN hand ELSE Append(hand, c)

\* the end of a round on the client: "played += 1", "wins += 1" on a WIN, break
CompleteRound(res) ==
    /\ played' = played + 1
    /\ wins' = IF res = RESULT_WIN THEN wins + 1 ELSE wins
    /\ cpc' = "for_loop"

\* tcp.sendall(REQUEST_STRUCT.pack(...)); wins = 0; played = 0
CSendRequest ==
    /\ cpc = "send_request"
    /\ tcp = "open"
    /\ ClientDeliver(RequestMsg(MAGIC_COOKIE, MSG_REQUEST, c_rounds))
    /\ wins' = 0
    /\ played' = 0
    /\ cpc' = "for_loop"
    /\ UNCHANGED <<c_rounds, c_r, c_i, player_hand, dealer_hand, decision, result, tcp>>
    /\ UNCHANGED <<srvVars, shutVars, runVars, s2c, sent, decided, closed>>

\* "for r in range(1, rounds + 1)": fresh hands for the next round, or the
\* session statistics and the finally block after the last one
CForLoop ==
    /\ cpc = "for_loop"
    /\ IF c_r < c_rounds /\ c_running
       THEN /\ c_r' = c_r + 1
            /\ player_hand' = <<>>
            /\ dealer_hand' = <<>>
            /\ c_i' = 0
            /\ cpc' = "recv_initial"
       ELSE /\ cpc' = "finally"
            /\ UNCHANGED <<c_r, player_hand, dealer_hand, c_i>>
    /\ closed' = SelectSeq(closed, LAMBDA rec : rec.idx > c_r)
    /\ UNCHANGED <<c_rounds, decision, result, wins, played, tcp>>
    /\ UNCHANGED <<srvVars, shutVars, runVars, netVars, sent, decided>>

\* "for i in range(3)": one initial payload; the first two cards go to the
\* player's hand, the third to the dealer's
CRecvInitial ==
    /\ cpc = "recv_initial"
    /\ tcp = "open"
    /\ s2c # <<>>
    /\ s2c' = Tail(s2c)
    /\ LET pkt == recv_payload(Head(s2c))
           c == card_from_wire(pkt.rank, pkt.suit)
       IN  IF pkt = None \/ c = Invalid
           THEN /\ cpc' = "finally"
                /\ UNCHANGED <<c_i, player_hand, dealer_hand, result>>
           ELSE /\ result' = pkt.result
                /\ player_hand' = IF c_i < 2 THEN AddCard(player_hand, c) ELSE player_hand
                /\ dealer_hand' = IF c_i < 2 THEN dealer_hand ELSE AddCard(dealer_hand, c)
                /\ c_i' = c_i + 1
                /\ cpc' = IF c_i + 1 < 3 THEN "recv_initial" ELSE "ask"
    /\ UNCHANGED <<c_rounds, c_r, decision, wins, played, tcp>>
    /\ UNCHANGED <<srvVars, shutVars, runVars, c2s, histVars>>

\* "while _running": decision = ask_decision(), then the Decision is sent
CSendDecision ==
    /\ cpc = "ask"
    /\ c_running
    /\ tcp = "open"
    /\ \E ans \in {Hittt, Stand} :
          /\ decision' = ans
          /\ ClientDeliver(DecisionMsg(MAGIC_COOKIE, MSG_PAYLOAD, ans))
    /\ cpc' = "recv_first"
    /\ UNCHANGED <<c_rounds, c_r, c_i, player_hand, dealer_hand, result, wins, played, tcp>>
    /\ UNCHANGED <<srvVars, shutVars, runVars, s2c, histVars>>

\* ask_decision returns "" (end of input): play_session returns at once
CQuit ==
    /\ cpc = "ask"
    /\ decision' = <<>>
    /\ cpc' = "finally"
    /\ UNCHANGED <<c_rounds, c_r, c_i, player_hand, dealer_hand, result, wins, played, tcp>>
    /\ UNCHANGED <<srvVars, shutVars, runVars, netVars, histVars>>

\* the first payload after a Decision: the hit card, or after a stand the
\* dealer's hidden card
CRecvFirst ==
    /\ cpc = "recv_first"
    /\ tcp = "open"
    /\ s2c # <<>>
    /\ s2c' = Tail(s2c)
    /\ LET pkt == recv_payload(Head(s2c))
           c == card_from_wire(pkt.rank, pkt.suit)
       IN  IF pkt = None \/ c = Invalid
           THEN /\ cpc' = "finally"
                /\ UNCHANGED <<player_hand, dealer_hand, result, wins, played>>
           ELSE /\ result' = pkt.result
                /\ IF decision = Hittt
                   THEN /\ player_hand' = AddCard(player_hand, c)
                        /\ dealer_hand' = dealer_hand
                        /\ IF pkt.result # RESULT_NOT_OVER
                           THEN CompleteRound(pkt.result)
                           ELSE /\ cpc' = "ask"
                                /\ UNCHANGED <<wins, played>>
                   ELSE /\ dealer_hand' = AddCard(dealer_hand, c)
                        /\ player_hand' = player_hand
                        /\ IF c_running /\ pkt.result = RESULT_NOT_OVER
                           THEN /\ cpc' = "recv_dealer"
                                /\ UNCHANGED <<wins, played>>
                           ELSE CompleteRound(pkt.result)
    /\ UNCHANGED <<c_rounds, c_r, c_i, decision, tcp>>
    /\ UNCHANGED <<srvVars, shutVars, runVars, c2s, histVars>>

\* "while _running and result == RESULT_NOT_OVER": the dealer's draws, up to
\* the payload that carries the result
CRecvDealer ==
    /\ cpc = "recv_dealer"
    /\ tcp = "open"
    /\ s2c # <<>>
    /\ s2c' = Tail(s2c)
    /\ LET pkt == recv_payload(Head(s2c))
           c == card_from_wire(pkt.rank, pkt.suit)
       IN  IF pkt = None \/ c = Invalid
           THEN /\ cpc' = "finally"
                /\ UNCHANGED <<dealer_hand, result, wins, played>>
           ELSE /\ result' = pkt.result
                /\ dealer_hand' = AddCard(dealer_hand, c)
                /\ IF c_running /\ pkt.result = RESULT_NOT_OVER
                   THEN /\ cpc' = "recv_dealer"
                        /\ UNCHANGED <<wins, played>>
                   ELSE CompleteRound(pkt.result)
    /\ UNCHANGED <<c_rounds, c_r, c_i, player_hand, decision, tcp>>
    /\ UNCHANGED <<srvVars, shutVars, runVars, c2s, histVars>>

\* recv_payload returns None because recv_exact does: the server closed and
\* nothing is left to read; "raise ConnectionError"
CRecvNone ==
    /\ cpc \in {"recv_initial", "recv_first", "recv_dealer"}
    /\ s2c = <<>>
    /\ conn = "closed"
    /\ cpc' = "finally"
    /\ UNCHANGED <<c_rounds, c_r, c_i, player_hand, dealer_hand, decision, result, wins, played, tcp>>
    /\ UNCHANGED <<srvVars, shutVars, runVars, netVars, histVars>>

\* tcp.sendall raises: the server's end is closed
CSendFails ==
    /\ cpc \in {"send_request", "ask"}
    /\ conn = "closed"
    /\ cpc' = "finally"
    /\ UNCHANGED <<c_rounds, c_r, c_i, player_hand, dealer_hand, decision, result, wins, played, tcp>>
    /\ UNCHANGED <<srvVars, shutVars, runVars, netVars, histVars>>

\* finally: tcp.close(); the locals of the round go with the call
CFinally ==
    /\ cpc = "finally"
    /\ tcp' = "closed"
    /\ cpc' = "done"
    /\ player_hand' = <<>>
    /\ dealer_hand' = <<>>
    /\ decision' = <<>>
    /\ result' = RESULT_NOT_OVER
    /\ UNCHANGED <<c_rounds, c_r, c_i, wins, played>>
    /\ UNCHANGED <<srvVars, shutVars, runVars, netVars, histVars>>

Client ==
    \/ CSendRequest \/ CForLoop \/ CRecvInitial \/ CSendDecision \/ CQuit
    \/ CRecvFirst \/ CRecvDealer \/ CRecvNone \/ CSendFails \/ CFinally

(***************************************************************************)
(* The session of client.py with server.py, with a shutdown at any time.   *)
(***************************************************************************)
Next == Server \/ Client \/ Shutdown

Spec == Init /\ [][Next]_vars

(***************************************************************************)
(* server.py with any peer that keeps the framing: a Request, then          *)
(* Decisions of any header and text, sent without waiting for the server.  *)
(***************************************************************************)
\* the most Decisions the peer keeps in flight
MaxInFlight == 1

\* decision texts of the peer, before padding to 5 bytes
PeerTexts == {Hittt, Stand, <<"H", "i", "t">>, <<"H", "i", "t", "t", XFF>>}

PeerSendRequest ==
    /\ cpc = "send_request"
    /\ tcp = "open"
    /\ \E cookie \in {MAGIC_COOKIE, BAD_COOKIE}, type \in {MSG_REQUEST, MSG_OFFER} :
          /\ cookie = MAGIC_COOKIE \/ type = MSG_REQUEST
          /\ ClientDeliver(RequestMsg(cookie, type, c_rounds))
    /\ cpc' = "peer"
    /\ UNCHANGED <<c_rounds, c_r, c_i, player_hand, dealer_hand, decision, result, wins, played, tcp>>
    /\ UNCHANGED <<srvVars, shutVars, runVars, s2c, histVars>>

PeerSendDecision ==
    /\ cpc = "peer"
    /\ tcp = "open"
    /\ Len(c2s) < MaxInFlight
    /\ \E cookie \in {MAGIC_COOKIE, BAD_COOKIE}, type \in {MSG_PAYLOAD, MSG_REQUEST}, text \in PeerTexts :
          /\ (cookie = MAGIC_COOKIE /\ type = MSG_PAYLOAD) \/ text = Stand
          /\ cookie = MAGIC_COOKIE \/ type = MSG_PAYLOAD
          /\ ClientDeliver(DecisionMsg(cookie, type, text))
    /\ UNCHANGED cliVars
    /\ UNCHANGED <<srvVars, shutVars, runVars, s2c, histVars>>

\* the peer reads all there is to read: it has then seen every round the
\* server completed
PeerRecv ==
    /\ cpc = "peer"
    /\ tcp = "open"
    /\ s2c # <<>>
    /\ s2c' = <<>>
    /\ closed' = <<>>
    /\ UNCHANGED cliVars
    /\ UNCHANGED <<srvVars, shutVars, runVars, c2s, sent, decided>>

PeerClose ==
    /\ cpc \in {"send_request", "peer"}
    /\ tcp' = "closed"
    /\ cpc' = "done"
    /\ UNCHANGED <<c_rounds, c_r, c_i, player_hand, dealer_hand, decision, result, wins, played>>
    /\ UNCHANGED <<srvVars, shutVars, runVars, netVars, histVars>>

\* No step of server.py reads s2c, so the server cannot tell when the peer
\* reads: it loses no behaviour of the server to let the peer read each
\* payload before anything else moves.
NextPeer ==
    \/ (s2c = <<>> /\ Server)
    \/ (s2c = <<>> /\ Shutdown)
    \/ (s2c = <<>> /\ (PeerSendRequest \/ PeerSendDecision \/ PeerClose))
    \/ PeerRecv

SpecPeer == Init /\ [][NextPeer]_vars

(***************************************************************************)
(* server.py: run_server.  The main thread runs the accept loop; a SIGINT  *)
(* runs _sigint_handler -> _shutdown on the main thread, on top of         *)
(* whatever the main thread was doing (frames), which waits until the      *)
(* handler returns.  Each accepted connection gets a worker thread that    *)
(* runs handle_client; its peer is any peer, seen through what recv and    *)
(* sendall give the worker.  signal.signal succeeds on the main thread, so *)
(* the KeyboardInterrupt fallback of run_server never runs.                *)
(***************************************************************************)
\* the variables of the one-session model, left alone here
sessVars == <<srvVars, shut_pc, cliVars, netVars, histVars, offerVars, handVars, codecVars>>

\* the lines handle_client prints
LOG_REGISTERED == "registered for rounds"
LOG_FINISHED == "Finished; closing"
LOG_DISCONNECTED == "Client disconnected"

\* the main thread runs its own code only when no _shutdown call is on top
InBody == frames = <<>>
Top == frames[Len(frames)]
SetTop(pc) == [frames EXCEPT ![Len(frames)] = pc]
Pop == SubSeq(frames, 1, Len(frames) - 1)

\* "while not stop_evt.is_set():" of the accept loop finds the flag set
MLoopEnds ==
    /\ InBody
    /\ mpc = "loop"
    /\ stop_evt
    /\ mpc' = "finally"
    /\ UNCHANGED <<frames, sigints, shutdown_printed_evt, printed, listener, sockets_lock, sockets_set, m_conn>>
    /\ UNCHANGED <<workerVars, stop_evt, sessVars>>

\* tcp.accept() times out: continue
MAcceptTimeout ==
    /\ InBody
    /\ mpc = "loop"
    /\ ~stop_evt
    /\ listener = "open"
    /\ UNCHANGED mainVars
    /\ UNCHANGED <<workerVars, stop_evt, sessVars>>

\* tcp.accept() raises OSError (the listening socket was closed by
\* _shutdown, or the system refuses the call): break
MAcceptFails ==
    /\ InBody
    /\ mpc = "loop"
    /\ mpc' = "finally"
    /\ UNCHANGED <<frames, sigints, shutdown_printed_evt, printed, listener, sockets_lock, sockets_set, m_conn>>
    /\ UNCHANGED <<workerVars, stop_evt, sessVars>>

\* conn, addr = tcp.accept()
MAccept ==
    /\ InBody
    /\ mpc = "loop"
    /\ ~stop_evt
    /\ listener = "open"
    /\ \E w \in Conns :
          /\ w_conn[w] = "none"
          /\ \A v \in Conns : v < w => w_conn[v] # "none"
          /\ m_conn' = w
          /\ w_conn' = [w_conn EXCEPT ![w] = "open"]
    /\ mpc' = "lock"
    /\ UNCHANGED <<frames, sigints, shutdown_printed_evt, printed, listener, sockets_lock, sockets_set>>
    /\ UNCHANGED <<w_pc, w_rounds, w_r, w_game, w_sent, w_log, w_exit, stop_evt, sessVars>>

\* "with sockets_lock:" of the accept loop, the lock is taken
MLock ==
    /\ InBody
    /\ mpc = "lock"
    /\ sockets_lock = "free"
    /\ sockets_lock' = "main"
    /\ mpc' = "add"
    /\ UNCHANGED <<frames, sigints, shutdown_printed_evt, printed, listener, sockets_set, m_conn>>
    /\ UNCHANGED <<workerVars, stop_evt, sessVars>>

\* sockets_set.add(conn), and the lock is released
MAdd ==
    /\ InBody
    /\ mpc = "add"
    /\ sockets_set' = sockets_set \cup {m_conn}
    /\ sockets_lock' = "free"
    /\ mpc' = "start"
    /\ UNCHANGED <<frames, sigints, shutdown_printed_evt, printed, listener, m_conn>>
    /\ UNCHANGED <<workerVars, stop_evt, sessVars>>

\* th = threading.Thread(target=handle_client, ...); th.start()
MStart ==
    /\ InBody
    /\ mpc = "start"
    /\ w_pc' = [w_pc EXCEPT ![m_conn] = "req_check"]
    /\ m_conn' = 0
    /\ mpc' = "loop"
    /\ UNCHANGED <<frames, sigints, shutdown_printed_evt, printed, listener, sockets_lock, sockets_set>>
    /\ UNCHANGED <<w_conn, w_rounds, w_r, w_game, w_sent, w_log, w_exit, stop_evt, sessVars>>

\* finally: _shutdown("finally") is called
MFinally ==
    /\ InBody
    /\ mpc = "finally"
    /\ frames' = <<"check">>
    /\ mpc' = "join"
    /\ UNCHANGED <<sigints, shutdown_printed_evt, printed, listener, sockets_lock, sockets_set, m_conn>>
    /\ UNCHANGED <<workerVars, stop_evt, sessVars>>

\* th.join(timeout=1.0) for every thread, then the old handler is restored
MJoin ==
    /\ InBody
    /\ mpc = "join"
    /\ mpc' = "done"
    /\ UNCHANGED <<frames, sigints, shutdown_printed_evt, printed, listener, sockets_lock, sockets_set, m_conn>>
    /\ UNCHANGED <<workerVars, stop_evt, sessVars>>

\* a SIGINT: _sigint_handler calls _shutdown("sigint") on the main thread
Sigint ==
    /\ mpc # "done"
    /\ sigints < MaxSigints
    /\ sigints' = sigints + 1
    /\ frames' = Append(frames, "check")
    /\ UNCHANGED <<mpc, shutdown_printed_evt, printed, listener, sockets_lock, sockets_set, m_conn>>
    /\ UNCHANGED <<workerVars, stop_evt, sessVars>>

\* _shutdown: "if not shutdown_printed_evt.is_set():"
SdCheck ==
    /\ frames # <<>>
    /\ Top = "check"
    /\ frames' = SetTop(IF shutdown_printed_evt THEN "stop" ELSE "print")
    /\ UNCHANGED <<mpc, sigints, shutdown_printed_evt, printed, listener, sockets_lock, sockets_set, m_conn>>
    /\ UNCHANGED <<workerVars, stop_evt, sessVars>>

\* _shutdown: shutdown_printed_evt.set(); print("Server shutting down gracefully...")
SdPrint ==
    /\ frames # <<>>
    /\ Top = "print"
    /\ shutdown_printed_evt' = TRUE
    /\ printed' = printed + 1
    /\ frames' = SetTop("stop")
    /\ UNCHANGED <<mpc, sigints, listener, sockets_lock, sockets_set, m_conn>>
    /\ UNCHANGED <<workerVars, stop_evt, sessVars>>

\* _shutdown: stop_evt.set(); tcp.close()
SdStop ==
    /\ frames # <<>>
    /\ Top = "stop"
    /\ stop_evt' = TRUE
    /\ listener' = "closed"
    /\ frames' = SetTop("lock")
    /\ UNCHANGED <<mpc, sigints, shutdown_printed_evt, printed, sockets_lock, sockets_set, m_conn>>
    /\ UNCHANGED <<workerVars, sessVars>>

\* _shutdown: "with sockets_lock:", the lock is taken; threading.Lock is not
\* reentrant, so the call waits also when the main thread itself holds it
SdLock ==
    /\ frames # <<>>
    /\ Top = "lock"
    /\ sockets_lock = "free"
    /\ sockets_lock' = "main"
    /\ frames' = SetTop("close")
    /\ UNCHANGED <<mpc, sigints, shutdown_printed_evt, printed, listener, sockets_set, m_conn>>
    /\ UNCHANGED <<workerVars, stop_evt, sessVars>>

\* _shutdown: every socket of sockets_set is shut down and closed, the set
\* cleared, the lock released; the call returns
SdClose ==
    /\ frames # <<>>
    /\ Top = "close"
    /\ w_conn' = [w \in Conns |-> IF w \in sockets_set THEN "closed" ELSE w_conn[w]]
    /\ sockets_set' = {}
    /\ sockets_lock' = "free"
    /\ frames' = Pop
    /\ UNCHANGED <<mpc, sigints, shutdown_printed_evt, printed, listener, m_conn>>
    /\ UNCHANGED <<w_pc, w_rounds, w_r, w_game, w_sent, w_log, w_exit, stop_evt, sessVars>>

MainThread ==
    \/ MLoopEnds \/ MAcceptTimeout \/ MAcceptFails \/ MAccept \/ MLock \/ MAdd
    \/ MStart \/ MFinally \/ MJoin
    \/ SdCheck \/ SdPrint \/ SdStop \/ SdLock \/ SdClose

\* a return that reports the abandoned connection as a disconnect
WReturn_Reported(w, how) ==
    /\ w_pc' = [w_pc EXCEPT ![w] = "finally"]
    /\ w_exit' = [w_exit EXCEPT ![w] = how]
    /\ w_log' = [w_log EXCEPT ![w] = Append(@, LOG_DISCONNECTED)]
    /\ UNCHANGED <<w_conn, w_rounds, w_r, w_game, w_sent>>

\* "return" of handle_client before any round
WReturn(w, how) ==
    /\ w_pc' = [w_pc EXCEPT ![w] = "finally"]
    /\ w_exit' = [w_exit EXCEPT ![w] = how]
    /\ UNCHANGED <<w_conn, w_rounds, w_r, w_game, w_sent, w_log>>

\* a failure that takes the games of all the sessions with it
WRaise_AllSessions(w) ==
    /\ w_pc' = [w_pc EXCEPT ![w] = "finally"]
    /\ w_exit' = [w_exit EXCEPT ![w] = IF stop_evt THEN "quiet" ELSE "disconnected"]
    /\ w_log' = [w_log EXCEPT ![w] = IF stop_evt THEN @ ELSE Append(@, LOG_DISCONNECTED)]
    /\ w_game' = [v \in Conns |-> NoGame]
    /\ w_sent' = [w_sent EXCEPT ![w] = 0]
    /\ UNCHANGED <<w_conn, w_rounds, w_r>>

\* an exception leaves play_one_round: "except (ConnectionError, OSError)",
\* which prints "Client disconnected" unless stop_evt is set
WRaise(w) ==
    /\ w_pc' = [w_pc EXCEPT ![w] = "finally"]
    /\ w_exit' = [w_exit EXCEPT ![w] = IF stop_evt THEN "quiet" ELSE "disconnected"]
    /\ w_log' = [w_log EXCEPT ![w] = IF stop_evt THEN @ ELSE Append(@, LOG_DISCONNECTED)]
    /\ w_game' = [w_game EXCEPT ![w] = NoGame]
    /\ w_sent' = [w_sent EXCEPT ![w] = 0]
    /\ UNCHANGED <<w_conn, w_rounds, w_r>>

\* play_one_round returns: the for loop of handle_client goes on to the
\* next round, or prints "Finished; closing"
WEndRound(w) ==
    /\ IF w_r[w] < w_rounds[w]
       THEN /\ w_r' = [w_r EXCEPT ![w] = @ + 1]
            /\ w_pc' = [w_pc EXCEPT ![w] = "start_round"]
            /\ UNCHANGED <<w_exit, w_log>>
       ELSE /\ w_pc' = [w_pc EXCEPT ![w] = "finally"]
            /\ w_exit' = [w_exit EXCEPT ![w] = "finished"]
            /\ w_log' = [w_log EXCEPT ![w] = Append(@, LOG_FINISHED)]
            /\ w_r' = w_r
    /\ w_game' = [w_game EXCEPT ![w] = NoGame]
    /\ w_sent' = [w_sent EXCEPT ![w] = 0]
    /\ UNCHANGED <<w_conn, w_rounds>>

\* recv_exact, top of its loop: "if stop_event.is_set(): return None"
WRecvCheck(w) ==
    /\ w_pc[w] \in {"req_check", "dec_check"}
    /\ IF stop_evt
       THEN IF w_pc[w] = "req_check" THEN WReturn(w, "no_request") ELSE WRaise(w)
       ELSE /\ w_pc' = [w_pc EXCEPT ![w] = IF @ = "req_check" THEN "req_wait" ELSE "dec_wait"]
            /\ UNCHANGED <<w_conn, w_rounds, w_r, w_game, w_sent, w_log, w_exit>>
    /\ UNCHANGED <<mainVars, stop_evt, sessVars>>

\* recv_exact: sock.recv times out, "continue"
WRecvTimeout(w) ==
    /\ w_pc[w] \in {"req_wait", "dec_wait"}
    /\ w_conn[w] = "open"
    /\ w_pc' = [w_pc EXCEPT ![w] = IF @ = "req_wait" THEN "req_check" ELSE "dec_check"]
    /\ UNCHANGED <<w_conn, w_rounds, w_r, w_game, w_sent, w_log, w_exit>>
    /\ UNCHANGED <<mainVars, stop_evt, sessVars>>

\* recv_exact returns None: OSError on a socket _shutdown closed, or the
\* peer closed its end before a full message arrived
WRecvNone(w) ==
    /\ w_pc[w] \in {"req_wait", "dec_wait"}
    /\ IF w_pc[w] = "req_wait" THEN WReturn(w, "no_request") ELSE WRaise(w)
    /\ UNCHANGED <<mainVars, stop_evt, sessVars>>

\* handle_client: a full Request arrives; header and round count are checked
WRecvRequest(w) ==
    /\ w_pc[w] = "req_wait"
    /\ w_conn[w] = "open"
    /\ \E cookie \in {MAGIC_COOKIE, BAD_COOKIE}, type \in {MSG_REQUEST, MSG_OFFER}, n \in 0..MaxRounds :
          /\ cookie = MAGIC_COOKIE \/ type = MSG_REQUEST
          /\ IF cookie # MAGIC_COOKIE \/ type # MSG_REQUEST
             THEN n = 0 /\ WReturn(w, "bad_request")
             ELSE IF n <= 0
             THEN WReturn(w, "zero_rounds")
             ELSE /\ w_rounds' = [w_rounds EXCEPT ![w] = n]
                  /\ w_r' = [w_r EXCEPT ![w] = 1]
                  /\ w_log' = [w_log EXCEPT ![w] = Append(@, LOG_REGISTERED)]
                  /\ w_pc' = [w_pc EXCEPT ![w] = "start_round"]
                  /\ UNCHANGED <<w_conn, w_game, w_sent, w_exit>>
    /\ UNCHANGED <<mainVars, stop_evt, sessVars>>

\* the shuffle of worker w's next game: one of the family, by worker and round
DeckOf(w) == (w + w_r[w]) % NumShuffles

\* play_one_round: the game is built and dealt and the three initial
\* payloads are sent, or a sendall raises
WStartRound(w) ==
    /\ w_pc[w] = "start_round"
    /\ \/ /\ w_sent' = [w_sent EXCEPT ![w] = 0]
          /\ w_pc' = [w_pc EXCEPT ![w] = "finally"]
          /\ w_exit' = [w_exit EXCEPT ![w] = IF stop_evt THEN "quiet" ELSE "disconnected"]
          /\ w_log' = [w_log EXCEPT ![w] = IF stop_evt THEN @ ELSE Append(@, LOG_DISCONNECTED)]
          /\ UNCHANGED <<w_conn, w_rounds, w_r, w_game>>
       \/ /\ w_conn[w] = "open"
          /\ w_pc' = [w_pc EXCEPT ![w] = "loop"]
          /\ w_sent' = [w_sent EXCEPT ![w] = 3]
          /\ w_game' = [w_game EXCEPT ![w] = start_game(BlackJackGame(DeckOf(w)))]
          /\ UNCHANGED <<w_conn, w_rounds, w_r, w_log, w_exit>>
    /\ UNCHANGED <<mainVars, stop_evt, sessVars>>

\* "while not stop_evt.is_set():" of the player decisions loop
WLoop(w) ==
    /\ w_pc[w] = "loop"
    /\ w_pc' = [w_pc EXCEPT ![w] = IF stop_evt THEN "reveal" ELSE "dec_check"]
    /\ UNCHANGED <<w_conn, w_rounds, w_r, w_game, w_sent, w_log, w_exit>>
    /\ UNCHANGED <<mainVars, stop_evt, sessVars>>

\* a Decision arrives: a wrong header is skipped, a stand leaves the loop, a
\* hit draws a card and sends it (the round ends on a bust)
WRecvDecision(w) ==
    /\ w_pc[w] = "dec_wait"
    /\ w_conn[w] = "open"
    /\ LET hit == player_hit(w_game[w])
       IN  \/ /\ w_pc' = [w_pc EXCEPT ![w] = "loop"]
              /\ UNCHANGED <<w_conn, w_rounds, w_r, w_game, w_sent, w_log, w_exit>>
           \/ /\ w_pc' = [w_pc EXCEPT ![w] = "reveal"]
              /\ UNCHANGED <<w_conn, w_rounds, w_r, w_game, w_sent, w_log, w_exit>>
           \/ /\ hit.card # None
              /\ IF hit.state = RESULT_LOSS
                 THEN WEndRound(w)
                 ELSE /\ w_game' = [w_game EXCEPT ![w] = hit.game]
                      /\ w_sent' = [w_sent EXCEPT ![w] = @ + 1]
                      /\ w_pc' = [w_pc EXCEPT ![w] = "loop"]
                      /\ UNCHANGED <<w_conn, w_rounds, w_r, w_log, w_exit>>
    /\ UNCHANGED <<mainVars, stop_evt, sessVars>>

\* the dealer's hidden card is sent
WReveal(w) ==
    /\ w_pc[w] = "reveal"
    /\ w_conn[w] = "open"
    /\ w_sent' = [w_sent EXCEPT ![w] = @ + 1]
    /\ w_pc' = [w_pc EXCEPT ![w] = "dealer_loop"]
    /\ UNCHANGED <<w_conn, w_rounds, w_r, w_game, w_log, w_exit>>
    /\ UNCHANGED <<mainVars, stop_evt, sessVars>>

\* "while not stop_evt.is_set() and game.dealer_should_hit():" one draw and
\* its payload (the round ends on a bust), or the loop is left and the
\* result is sent
WDealerLoop(w) ==
    /\ w_pc[w] = "dealer_loop"
    /\ w_conn[w] = "open"
    /\ LET hit == dealer_hit(w_game[w])
       IN  IF ~stop_evt /\ should_hit(w_game[w].dealer) /\ hit.state # RESULT_WIN
           THEN /\ w_game' = [w_game EXCEPT ![w] = hit.game]
                /\ w_sent' = [w_sent EXCEPT ![w] = @ + 1]
                /\ UNCHANGED <<w_pc, w_conn, w_rounds, w_r, w_log, w_exit>>
           ELSE WEndRound(w)
    /\ UNCHANGED <<mainVars, stop_evt, sessVars>>

\* sock.sendall raises OSError: the socket was closed by _shutdown, or the
\* peer is gone
WSendFails(w) ==
    /\ w_pc[w] \in {"reveal", "dealer_loop"}
    /\ WRaise(w)
    /\ UNCHANGED <<mainVars, stop_evt, sessVars>>

\* a finally block that closes the socket and leaves the registry alone
WFinally_NoDiscard(w) ==
    /\ w_pc[w] = "finally"
    /\ w_conn' = [w_conn EXCEPT ![w] = "closed"]
    /\ w_pc' = [w_pc EXCEPT ![w] = "done"]
    /\ w_rounds' = [w_rounds EXCEPT ![w] = 0]
    /\ w_r' = [w_r EXCEPT ![w] = 0]
    /\ UNCHANGED <<mainVars, w_game, w_sent, w_log, w_exit, stop_evt, sessVars>>

\* finally: "with sockets_lock: sockets_set.discard(conn)", conn.close(); the
\* locals of handle_client go with the call
WFinally(w) ==
    /\ w_pc[w] = "finally"
    /\ sockets_lock = "free"
    /\ sockets_set' = sockets_set \ {w}
    /\ w_conn' = [w_conn EXCEPT ![w] = "closed"]
    /\ w_pc' = [w_pc EXCEPT ![w] = "done"]
    /\ w_rounds' = [w_rounds EXCEPT ![w] = 0]
    /\ w_r' = [w_r EXCEPT ![w] = 0]
    /\ UNCHANGED <<mpc, frames, sigints, shutdown_printed_evt, printed, listener, sockets_lock, m_conn>>
    /\ UNCHANGED <<w_game, w_sent, w_log, w_exit, stop_evt, sessVars>>

Worker(w) ==
    \/ WRecvCheck(w) \/ WRecvTimeout(w) \/ WRecvNone(w) \/ WRecvRequest(w)
    \/ WStartRound(w) \/ WLoop(w) \/ WRecvDecision(w) \/ WReveal(w)
    \/ WDealerLoop(w) \/ WSendFails(w) \/ WFinally(w)

InitServer == InitSession /\ c_rounds = 0 /\ InitRun

NextServer == MainThread \/ Sigint \/ (\E w \in Conns : Worker(w))

SpecServer == InitServer /\ [][NextServer]_vars

\* every thread that can run gets to run: the main thread (its body or the
\* _shutdown call on top of it) and each worker
SpecServerFair ==
    SpecServer /\ WF_vars(MainThread) /\ \A w \in Conns : WF_vars(Worker(w))

(***************************************************************************)
(* Discovery: server.py broadcast_offers, the thread run_server starts     *)
(* before its accept loop, and client.py listen_for_offer.  The socket and *)
(* its SO_BROADCAST option are obtained without error.                     *)
(***************************************************************************)
\* what the discovery steps leave alone
restVars == <<srvVars, shutVars, cliVars, netVars, histVars, mainVars, workerVars, handVars, codecVars>>

\* OFFER_STRUCT (the server name is not modelled)
OfferMsg(cookie, type, tcp_port) ==
    [cookie |-> cookie, type |-> type, tcp_port |-> tcp_port]

\* udp = socket.socket(...); setsockopt; payload = OFFER_STRUCT.pack(...)
BSocket ==
    /\ bpc = "socket"
    /\ udp' = "open"
    /\ bpc' = "check"
    /\ UNCHANGED <<port, b_last, air, l_offer, restVars>>

\* "while not stop_evt.is_set():"
BCheck ==
    /\ bpc = "check"
    /\ bpc' = IF stop_evt THEN "close" ELSE "send"
    /\ UNCHANGED <<udp, port, b_last, air, l_offer, restVars>>

\* a sendto whose OSError ends the loop
BSend_FailStops ==
    /\ bpc = "send"
    /\ \/ /\ air' = <<OfferMsg(MAGIC_COOKIE, MSG_OFFER, port)>>
          /\ b_last' = "sent"
          /\ bpc' = "wait"
       \/ /\ b_last' = "failed"
          /\ bpc' = "close"
          /\ air' = air
    /\ UNCHANGED <<udp, port, l_offer, restVars>>

\* udp.sendto(payload, ...): the Offer goes out, or OSError is passed over
BSend ==
    /\ bpc = "send"
    /\ \/ /\ air' = <<OfferMsg(MAGIC_COOKIE, MSG_OFFER, port)>>
          /\ b_last' = "sent"
       \/ /\ b_last' = "failed"
          /\ air' = air
    /\ bpc' = "wait"
    /\ UNCHANGED <<udp, port, l_offer, restVars>>

\* stop_evt.wait(OFFER_INTERVAL_SEC) returns: the interval is over, or the
\* event was set
BWait ==
    /\ bpc = "wait"
    /\ bpc' = "check"
    /\ UNCHANGED <<udp, port, b_last, air, l_offer, restVars>>

\* finally: udp.close()
BClose ==
    /\ bpc = "close"
    /\ udp' = "closed"
    /\ bpc' = "done"
    /\ UNCHANGED <<port, b_last, air, l_offer, restVars>>

Broadcaster == BSocket \/ BCheck \/ BSend \/ BWait \/ BClose

\* listen_for_offer: udp.recvfrom times out, "continue"
CListenTimeout ==
    /\ cpc = "listen"
    /\ air = <<>>
    /\ UNCHANGED vars

\* listen_for_offer: a datagram of OFFER_STRUCT.size bytes or more is read;
\* a wrong cookie or type is passed over, an Offer is returned
CListen ==
    /\ cpc = "listen"
    /\ air # <<>>
    /\ air' = <<>>
    /\ LET msg == Head(air)
       IN  IF msg.cookie # MAGIC_COOKIE \/ msg.type # MSG_OFFER
           THEN UNCHANGED <<cpc, l_offer>>
           ELSE /\ l_offer' = [server_port |-> msg.tcp_port]
                /\ cpc' = "send_request"
    /\ UNCHANGED <<c_rounds, c_r, c_i, player_hand, dealer_hand, decision, result, wins, played, tcp>>
    /\ UNCHANGED <<bpc, udp, port, b_last>>
    /\ UNCHANGED <<srvVars, shutVars, netVars, histVars, mainVars, workerVars, handVars, codecVars>>

\* run_server with its discovery thread and a listening client; no worker
\* is scheduled
InitOffers ==
    /\ InitSessionFrom("listen") /\ c_rounds = 0
    /\ InitThreads
    /\ InitDiscovery("socket", Ports)
    /\ InitHand

NextOffers == Broadcaster \/ CListenTimeout \/ CListen \/ MainThread \/ Sigint

SpecOffers == InitOffers /\ [][NextOffers]_vars

\* the discovery thread gets to run
SpecOffersFair == SpecOffers /\ WF_vars(Broadcaster)

(***************************************************************************)
(* Foreign traffic: full-size messages with a wrong cookie or a wrong type *)
(* tag that reach a receiver: a datagram on the offers port, a message on  *)
(* the TCP stream in front of what the peer sends next.                    *)
(***************************************************************************)
\* a header a receiver that expects `type` does not accept
IsNoise(msg, type) == msg.cookie # MAGIC_COOKIE \/ msg.type # type

\* the wrong headers: wrong cookie, or wrong type tag
NoiseHeaders(type) ==
    {<<BAD_COOKIE, type>>} \cup {<<MAGIC_COOKIE, t>> : t \in {MSG_OFFER, MSG_REQUEST, MSG_PAYLOAD} \ {type}}

\* a datagram reaches the listening client: an Offer of some server, or noise
DatagramArrives ==
    /\ cpc = "listen"
    /\ air = <<>>
    /\ \E cookie \in {MAGIC_COOKIE, BAD_COOKIE}, type \in {MSG_OFFER, MSG_REQUEST}, p \in Ports :
          /\ cookie = MAGIC_COOKIE \/ type = MSG_OFFER
          /\ air' = <<OfferMsg(cookie, type, p)>>
    /\ UNCHANGED <<bpc, udp, port, b_last, l_offer, restVars>>

\* a Request or a Decision with a wrong header reaches the worker that
\* waits for one
NoiseToServer ==
    /\ conn = "open"
    /\ c2s = <<>>
    /\ spc \in {"req_check", "req_wait", "loop", "dec_check", "dec_wait"}
    /\ \E h \in NoiseHeaders(IF spc \in {"req_check", "req_wait"} THEN MSG_REQUEST ELSE MSG_PAYLOAD) :
          c2s' = IF spc \in {"req_check", "req_wait"}
                 THEN <<RequestMsg(h[1], h[2], 1)>>
                 ELSE <<DecisionMsg(h[1], h[2], Hittt)>>
    /\ UNCHANGED <<srvVars, shutVars, runVars, cliVars, s2c, histVars>>

\* a Card Payload with a wrong header reaches the client that waits for one
NoiseToClient ==
    /\ tcp = "open"
    /\ cpc \in {"recv_initial", "recv_first", "recv_dealer"}
    /\ \A n \in 1..Len(s2c) : ~IsNoise(s2c[n], MSG_PAYLOAD)
    /\ \E h \in NoiseHeaders(MSG_PAYLOAD) :
          s2c' = <<PayloadMsg(h[1], h[2], RESULT_NOT_OVER, 1, 0)>> \o s2c
    /\ UNCHANGED <<srvVars, shutVars, runVars, cliVars, c2s, histVars>>

Noise == DatagramArrives \/ NoiseToServer \/ NoiseToClient

\* the client from listen_for_offer on, its session with the server, and
\* foreign traffic at each receiver
InitNoise == InitSessionFrom("listen") /\ InitRun

NextNoise == Server \/ Client \/ CListenTimeout \/ CListen \/ Noise

SpecNoise == InitNoise /\ [][NextNoise]_vars

(***************************************************************************)
(* blackjack.py: a Hand on its own, built card by card from any cards.     *)
(* calculate_value reads card.value only: the cards are of one suit.       *)
(***************************************************************************)
\* Hand.add_card(card)
HAddCard ==
    /\ Len(h_cards) < MaxHand
    /\ \E v \in 1..Len(VALUES) :
          h_cards' = Append(h_cards, Card(VALUES[v], SUITS[1]))
    /\ h_value' = -1
    /\ UNCHANGED <<srvVars, shutVars, cliVars, netVars, histVars, mainVars, workerVars, offerVars, codecVars>>

\* Hand.calculate_value()
HCalculate ==
    /\ h_value' = calculate_value(h_cards)
    /\ UNCHANGED <<h_cards, srvVars, shutVars, cliVars, netVars, histVars, mainVars, workerVars, offerVars, codecVars>>

InitHandOnly == InitSession /\ c_rounds = 0 /\ InitRun

NextHand == HAddCard \/ HCalculate

SpecHand == InitHandOnly /\ [][NextHand]_vars

(***************************************************************************)
(* common.py: the codec on its own.  A name is built character by          *)
(* character, packed by pad_name and read back by decode_name; a card of   *)
(* the deck is packed by card_to_wire and read back by card_from_wire.     *)
(***************************************************************************)
\* one more character of the name (the argument of pad_name)
NAddChar ==
    /\ n_wire = <<>>
    /\ Len(n_name) <= NameLen
    /\ \E ch \in NameChars : n_name' = Append(n_name, ch)
    /\ UNCHANGED <<n_wire, n_back, k_card, k_wire, k_back>>
    /\ UNCHANGED <<srvVars, shutVars, cliVars, netVars, histVars, mainVars, workerVars, offerVars, h_cards, h_value>>

\* pad_name(name)
NPad ==
    /\ n_wire = <<>>
    /\ n_wire' = pad_name(n_name)
    /\ UNCHANGED <<n_name, n_back, k_card, k_wire, k_back>>
    /\ UNCHANGED <<srvVars, shutVars, cliVars, netVars, histVars, mainVars, workerVars, offerVars, h_cards, h_value>>

\* decode_name(raw32) at the receiver
NDecode ==
    /\ n_wire # <<>>
    /\ n_back = NotDecoded
    /\ n_back' = decode_name(n_wire)
    /\ UNCHANGED <<n_name, n_wire, k_card, k_wire, k_back>>
    /\ UNCHANGED <<srvVars, shutVars, cliVars, netVars, histVars, mainVars, workerVars, offerVars, h_cards, h_value>>

\* card_to_wire(card) for a card of the deck
KEncode ==
    /\ k_card = None
    /\ \E n \in 1..Len(NewDeck) :
          /\ k_card' = NewDeck[n]
          /\ k_wire' = card_to_wire(NewDeck[n])
    /\ UNCHANGED <<n_name, n_wire, n_back, k_back>>
    /\ UNCHANGED <<srvVars, shutVars, cliVars, netVars, histVars, mainVars, workerVars, offerVars, h_cards, h_value>>

\* card_from_wire(rank, suit) at the receiver
KDecode ==
    /\ k_card # None
    /\ k_back = NoCardBack
    /\ k_back' = card_from_wire(k_wire[1], k_wire[2])
    /\ UNCHANGED <<n_name, n_wire, n_back, k_card, k_wire>>
    /\ UNCHANGED <<srvVars, shutVars, cliVars, netVars, histVars, mainVars, workerVars, offerVars, h_cards, h_value>>

NextCodec == NAddChar \/ NPad \/ NDecode \/ KEncode \/ KDecode

SpecCodec == InitHandOnly /\ [][NextCodec]_vars

(***************************************************************************)
(* client.py with server.py while nothing fails: no SIGINT on either side, *)
(* no socket error, and the user answers every prompt with hit or stand.   *)
(***************************************************************************)
\* client.py main: play_session is called with the 1..255 of ask_rounds
InitPlay == Init /\ c_rounds >= 1

\* handle_client and play_one_round, the steps that need no failure, but for
\* the start of a round
SessionServerRest ==
    \/ SRecvCheck \/ SRecvTimeout \/ SRecvRequest
    \/ SSendInitial \/ SLoop \/ SRecvDecision \/ SSendHit
    \/ SReveal \/ SDealerLoop \/ SSendDealer \/ SSendFinal
    \/ SFinally

SessionServer == SessionServerRest \/ SStartRound

\* play_session, the steps that need no failure
SessionClient ==
    \/ CSendRequest \/ CForLoop \/ CRecvInitial \/ CSendDecision
    \/ CRecvFirst \/ CRecvDealer \/ CFinally

NextSession == SessionServer \/ SessionClient

SpecSession == InitPlay /\ [][NextSession]_vars

\* SStartRound can be taken exactly when spc = "start_round", and it leaves
\* "start_round": weak fairness of it says the thread is not there for ever
StartRoundFair == []<>(spc # "start_round")

\* each of the two processes keeps running: a thread that can take a step
\* takes one, and input() returns
SpecSessionFair ==
    SpecSession /\ WF_vars(SessionServerRest) /\ StartRoundFair /\ WF_vars(SessionClient)

(***************************************************************************)
(* Vocabulary of the properties.                                           *)
(***************************************************************************)
Terminal == {RESULT_TIE, RESULT_LOSS, RESULT_WIN}

\* a round is in progress on the server
InRound == game # NoGame

\* the payload carries card c
Carries(msg, c) == msg.rank = card_to_wire(c)[1] /\ msg.suit = card_to_wire(c)[2]

\* the dealer's second card is among the payloads of log
HiddenSent(log, dcards) == \E n \in 1..Len(log) : Carries(log[n], dcards[2])

\* the sentinel of send_server_payload(conn, result, None)
IsSentinel(msg) == msg.rank = 0 /\ msg.suit = 0

Last(seq) == seq[Len(seq)]

\* rec is the round play_one_round returned from last, and no later round
\* has begun
JustCompleted(rec) ==
    \/ spc = "start_round" /\ rec.idx = round_idx - 1
    \/ outcome = "finished" /\ rec.idx = round_idx

\* C1: every round the server completed sent exactly one payload with a
\* result in {TIE, LOSS, WIN}, as its last payload, every payload before it
\* carries NOT_OVER, and the result follows the law: WIN iff the dealer is
\* bust or neither is bust and the player's total is higher; LOSS iff the
\* player is bust or neither is bust and the dealer's total is higher; TIE
\* iff neither is bust and the totals are equal.
RoundResultLaw ==
    \A n \in 1..Len(closed) :
        LET rec == closed[n]
            p == calculate_value(rec.player)
            d == calculate_value(rec.dealer)
            neither == p <= BLACKJACK /\ d <= BLACKJACK
            res == Last(rec.sent).result
        IN  /\ res \in Terminal
            /\ \A m \in 1..(Len(rec.sent) - 1) : rec.sent[m].result = RESULT_NOT_OVER
            /\ res = RESULT_WIN <=> (d > BLACKJACK \/ (neither /\ p > d))
            /\ res = RESULT_LOSS <=> (p > BLACKJACK \/ (neither /\ d > p))
            /\ res = RESULT_TIE <=> (neither /\ p = d)
            /\ JustCompleted(rec) => sent = rec.sent

\* C1 witness: a round completed by comparison with equal totals
RoundResultLawWitness ==
    /\ closed # <<>>
    /\ Last(closed[1].sent).result = RESULT_TIE
    /\ IsSentinel(Last(closed[1].sent))

\* C3: a round begins with exactly three payloads, in this order: the
\* player's first card, the player's second card, the dealer's first card,
\* each with NOT_OVER; when the server turns to the first Decision of the
\* round nothing else has been sent, both hands hold exactly two cards, and
\* the four cards left the shuffled deck alternately: player, dealer,
\* player, dealer.
InitialDeal ==
    /\ InRound =>
          /\ Len(game.player) >= 2
          /\ Len(game.dealer) >= 2
          /\ \A n \in 1..Len(sent) :
                n <= 3 => sent[n] = ServerPayload(RESULT_NOT_OVER,
                                       <<game.player[1], game.player[2], game.dealer[1]>>[n])
    /\ spc = "send_p1" => sent = <<>>
    /\ spc = "send_p2" => Len(sent) = 1
    /\ spc = "send_d1" => Len(sent) = 2
    /\ (spc \in {"loop", "dec_check", "dec_wait"} /\ decided = <<>>) =>
          /\ Len(sent) = 3
          /\ Len(game.player) = 2
          /\ Len(game.dealer) = 2
          /\ \E k \in 0..(NumShuffles - 1) :
                Shuffled(k) = game.deck \o <<game.dealer[2], game.player[2],
                                              game.dealer[1], game.player[1]>>

\* C3 witness: the second round waits for its first Decision
InitialDealWitness ==
    /\ spc = "dec_wait"
    /\ decided = <<>>
    /\ round_idx = 2
    /\ Len(sent) = 3

\* C4: the dealer's second (hidden) card is in no payload of a round until
\* the server has taken, in that round, a Decision it treats as Stand; a
\* round the player lost by going bust never sent it.
HiddenUntilStand ==
    /\ (InRound /\ HiddenSent(sent, game.dealer)) =>
          \E m \in 1..Len(decided) : decided[m] = Stand
    /\ \A n \in 1..Len(closed) :
          /\ HiddenSent(closed[n].sent, closed[n].dealer) =>
                \E m \in 1..Len(closed[n].decided) : closed[n].decided[m] = Stand
          /\ is_busted(closed[n].player) => ~HiddenSent(closed[n].sent, closed[n].dealer)

\* C4, in the runs in which no shutdown is signalled
HiddenUntilStandNoShutdown == ~stop_evt => HiddenUntilStand

\* C7: the sentinel payload (rank 0, suit 0) is sent only with the dealer's
\* hand between 17 and 21, the player's hand at most 21 and the dealer's
\* hidden card already sent.
SentinelAfterDealerStops ==
    /\ spc = "send_final" =>
          /\ calculate_value(game.dealer) \in DEALER_MAX..BLACKJACK
          /\ calculate_value(game.player) <= BLACKJACK
          /\ HiddenSent(sent, game.dealer)
    /\ \A n \in 1..Len(closed) :
          IsSentinel(Last(closed[n].sent)) =>
              /\ calculate_value(closed[n].dealer) \in DEALER_MAX..BLACKJACK
              /\ calculate_value(closed[n].player) <= BLACKJACK
              /\ HiddenSent(SubSeq(closed[n].sent, 1, Len(closed[n].sent) - 1), closed[n].dealer)

\* C7, in the runs in which no shutdown is signalled
SentinelAfterDealerStopsNoShutdown == ~stop_evt => SentinelAfterDealerStops

\* the server takes a Decision with a valid header in this step
TakesDecision == Len(decided') = Len(decided) + 1

\* the server sends a payload in this step
Sends == Len(sent') = Len(sent) + 1

\* this step ends the server's round, with log as all the round sent
RoundEnds(log) ==
    /\ game' = NoGame
    /\ spc' \in {"start_round", "finally"}
    /\ Len(closed') = Len(closed) + 1
    /\ Last(closed').sent = log
    /\ Last(closed').idx = round_idx

\* C5: on a valid Decision "Hittt" the server draws exactly one card, the
\* top of the deck, into the player's hand and nothing else; its next
\* payload carries that card, with LOSS if the player's hand is now above 21
\* and NOT_OVER otherwise; a LOSS payload ends the round as its last payload
\* (the dealer's hand still the two dealt cards, the hidden one not sent, no
\* sentinel); after a NOT_OVER payload the server is back at the head of the
\* decision loop, from where, unless shutdown was signalled, it only goes on
\* to wait for the next Decision.
HitDrawsOneCard ==
    /\ [][(TakesDecision /\ Last(decided') = Hittt) =>
            /\ spc' = "send_hit"
            /\ game'.player = Append(game.player, Last(game.deck))
            /\ game'.deck = SubSeq(game.deck, 1, Len(game.deck) - 1)
            /\ game'.dealer = game.dealer
            /\ sent' = sent]_vars
    /\ [][(spc = "send_hit" /\ Sends) =>
            /\ Carries(Last(sent'), Last(game.player))
            /\ Last(sent').result =
                  (IF calculate_value(game.player) > BLACKJACK
                   THEN RESULT_LOSS ELSE RESULT_NOT_OVER)
            /\ Last(sent').result = RESULT_LOSS =>
                  /\ RoundEnds(sent')
                  /\ Len(game.dealer) = 2
                  /\ ~HiddenSent(sent', game.dealer)
                  /\ \A n \in 1..Len(sent') : ~IsSentinel(sent'[n])
            /\ Last(sent').result = RESULT_NOT_OVER =>
                  /\ spc' = "loop"
                  /\ game' = game]_vars
    /\ [][(spc = "loop" /\ ~stop_evt /\ spc' # spc) => spc' = "dec_check"]_vars
    /\ [][(spc = "dec_check" /\ ~stop_evt /\ spc' # spc) => spc' = "dec_wait"]_vars
    /\ [](spc = "send_hit" => Last(decided) = Hittt)

\* C5 witness: a third hit card, a bust, is about to be sent
HitDrawsOneCardWitness ==
    /\ spc = "send_hit"
    /\ state = RESULT_LOSS
    /\ Len(game.player) >= 4
    /\ ~stop_evt

\* C6: the dealer draws only after the reveal and only with a hand below 17,
\* one card, the top of the deck, at a time; unless shutdown was signalled a
\* hand below 17 does draw; the payload that follows carries that card, with
\* WIN if the dealer's hand is now above 21 and NOT_OVER otherwise; a WIN
\* payload ends the round as its last payload (no sentinel), and after a
\* NOT_OVER payload the dealer loop runs again.
DealerDrawsBelow17 ==
    /\ [][(InRound /\ game' # NoGame /\ Len(game.dealer) >= 2 /\ game'.dealer # game.dealer) =>
            /\ spc = "dealer_loop"
            /\ spc' = "send_dealer"
            /\ calculate_value(game.dealer) < DEALER_MAX
            /\ HiddenSent(sent, game.dealer)
            /\ game'.dealer = Append(game.dealer, Last(game.deck))
            /\ game'.deck = SubSeq(game.deck, 1, Len(game.deck) - 1)
            /\ game'.player = game.player
            /\ sent' = sent]_vars
    /\ [][(spc = "dealer_loop" /\ spc' # spc /\ ~stop_evt
              /\ calculate_value(game.dealer) < DEALER_MAX) =>
            /\ spc' = "send_dealer"
            /\ Len(game'.dealer) = Len(game.dealer) + 1]_vars
    /\ [][(spc = "dealer_loop" /\ spc' # spc
              /\ calculate_value(game.dealer) >= DEALER_MAX) =>
            /\ spc' = "send_final"
            /\ game' = game]_vars
    /\ [][(spc = "send_dealer" /\ Sends) =>
            /\ Carries(Last(sent'), Last(game.dealer))
            /\ Last(sent').result =
                  (IF calculate_value(game.dealer) > BLACKJACK
                   THEN RESULT_WIN ELSE RESULT_NOT_OVER)
            /\ Last(sent').result = RESULT_WIN =>
                  /\ RoundEnds(sent')
                  /\ \A n \in 1..Len(sent') : ~IsSentinel(sent'[n])
            /\ Last(sent').result = RESULT_NOT_OVER =>
                  /\ spc' = "dealer_loop"
                  /\ game' = game]_vars

\* C6 witness: a card the dealer drew, a bust, is about to be sent
DealerDrawsBelow17Witness ==
    /\ spc = "send_dealer"
    /\ state = RESULT_WIN
    /\ Len(game.dealer) >= 3
    /\ ~stop_evt

\* the Decisions among the messages in flight to the server
DecisionsInFlight == Cardinality({n \in 1..Len(c2s) : c2s[n].type = MSG_PAYLOAD})

\* the hits among the decisions the server took in its round
HitsTaken == Cardinality({n \in 1..Len(decided) : decided[n] = Hittt})

\* C9: the exchange is strictly request-response: at most one Decision is in
\* flight; whenever the client is about to send a Decision it has received
\* every payload the server sent; and the server sends payloads beyond the
\* initial three only in answer to a Decision it took: one per hit, and the
\* reveal and what follows it only after a Stand.
RequestResponse ==
    /\ DecisionsInFlight <= 1
    /\ cpc = "ask" => s2c = <<>>
    /\ (\A m \in 1..Len(decided) : decided[m] # Stand) => Len(sent) <= 3 + HitsTaken

\* C9, in the runs in which no shutdown is signalled
RequestResponseNoShutdown == ~stop_evt => RequestResponse

\* the player stood in the round of rec
Stood(rec) == rec.decided # <<>> /\ Last(rec.decided) = Stand

\* C2: when the client has completed a round the server completed too, the
\* result it recorded is the terminal result the server sent, its player
\* hand is the server's, card for card, its dealer hand is the server's if
\* the player stood and only the dealer's first card if the player went
\* bust, and both ends go on to the same next round (or both are through).
SameRoundState ==
    \A n \in 1..Len(closed) :
        (cpc = "for_loop" /\ c_r >= 1 /\ closed[n].idx = c_r) =>
            /\ result = closed[n].result
            /\ player_hand = closed[n].player
            /\ Stood(closed[n]) => dealer_hand = closed[n].dealer
            /\ is_busted(closed[n].player) => dealer_hand = <<closed[n].dealer[1]>>
            /\ rounds = c_rounds
            /\ played = c_r

\* C2, in the runs in which no shutdown is signalled
SameRoundStateNoShutdown == ~stop_evt => SameRoundState

\* the deck and the two hands of g hold each of the 52 cards exactly once
FullDeck(g) ==
    LET all == g.deck \o g.player \o g.dealer
    IN  /\ Len(all) = Len(NewDeck)
        /\ \A n \in 1..Len(NewDeck) : \E m \in 1..Len(all) : all[m] = NewDeck[n]

\* C10: the round index only moves up by one, at the return of a round;
\* every round starts from no game, at an index in 1..rounds, with a game
\* built anew (all 52 cards between the deck and two hands of two cards);
\* when handle_client has gone through its rounds, with no I/O failure, it
\* has played exactly the rounds the Request asked for and the connection
\* is closed once it is done; a Request for 0 rounds starts no round and
\* sends no payload.
RunsRequestedRounds ==
    /\ [][round_idx' # round_idx =>
            /\ round_idx' = round_idx + 1
            /\ round_idx' <= rounds'
            /\ round_idx >= 1 =>
                  (Len(closed') = Len(closed) + 1 /\ Last(closed').idx = round_idx)]_vars
    /\ [][(spc = "start_round" /\ spc' # spc) =>
            /\ spc' = "send_p1"
            /\ game = NoGame
            /\ round_idx \in 1..rounds
            /\ FullDeck(game')
            /\ Len(game'.player) = 2
            /\ Len(game'.dealer) = 2
            /\ sent' = <<>>]_vars
    /\ [](InRound => round_idx \in 1..rounds)
    /\ [](outcome = "finished" => (rounds >= 1 /\ round_idx = rounds /\ rounds = c_rounds))
    /\ [](spc = "done" => conn = "closed")
    /\ []((c2s # <<>> /\ Head(c2s).type = MSG_REQUEST /\ Head(c2s).rounds = 0) => rounds = 0)
    /\ []((rounds = 0 /\ spc # "req_check" /\ spc # "req_wait") => outcome = "silent")
    /\ [](rounds = 0 => (round_idx = 0 /\ game = NoGame /\ sent = <<>> /\ s2c = <<>>))

\* C10 witness: a session of MaxRounds rounds ran through without shutdown
RunsRequestedRoundsWitness ==
    /\ spc = "done"
    /\ outcome = "finished"
    /\ round_idx = MaxRounds
    /\ ~stop_evt

\* C8: a Decision with a valid cookie and type whose text is not exactly
\* "Hittt" is taken as "Stand": the decision the server acts on is Stand, no
\* card is drawn (hands and deck are as they were), nothing is sent by the
\* step, and the server goes on to the dealer reveal; only the text "Hittt"
\* is taken as a hit.
UnknownDecisionStands ==
    /\ [][(TakesDecision /\ decision_raw' # Hittt) =>
            /\ Last(decided') = Stand
            /\ game' = game
            /\ card' = card
            /\ state' = state
            /\ sent' = sent
            /\ s2c' = s2c
            /\ spc' = "reveal"]_vars
    /\ [][(TakesDecision /\ decision_raw' = Hittt) => Last(decided') = Hittt]_vars
    /\ [][TakesDecision =>
            /\ spc = "dec_wait"
            /\ c2s # <<>>
            /\ Head(c2s).cookie = MAGIC_COOKIE
            /\ Head(c2s).type = MSG_PAYLOAD
            /\ decision_raw' = Head(c2s).decision]_vars

\* C8 witness: a Decision whose text is neither "Hittt" nor "Stand" was taken
\* and the server is at the dealer reveal
UnknownDecisionStandsWitness ==
    /\ spc = "reveal"
    /\ decided # <<>>
    /\ Last(decided) = Stand
    /\ decision_raw = Pack5(<<"H", "i", "t">>)
    /\ Len(game.player) = 2
    /\ ~stop_evt

\* C11: once stop_evt is set the worker starts no round: no game is built
\* (play_one_round is not entered) and no payload of an initial deal is sent.
NoRoundAfterShutdown ==
    /\ [][stop_evt => ~(spc = "start_round" /\ spc' = "send_p1")]_vars
    /\ [][stop_evt => ~(spc \in {"send_p1", "send_p2", "send_d1"} /\ Sends)]_vars

\* a worker inside a session: waiting for the Request or a Decision, or in
\* the dealer loop
MidRound == {"req_check", "req_wait", "dec_check", "dec_wait", "dealer_loop"}

\* shutdown has been signalled while a session is mid-round
ShutdownMidRound == stop_evt /\ \E w \in Conns : w_pc[w] \in MidRound

\* every worker has terminated and every socket of the server is released
AllDown ==
    /\ \A w \in Conns : w_pc[w] \in {"none", "done"} /\ w_conn[w] # "open"
    /\ m_conn = 0
    /\ listener = "closed"
    /\ sockets_set = {}
    /\ frames = <<>>
    /\ mpc = "done"

\* C12: once shutdown is signalled the server comes to rest: every worker
\* has terminated, every accepted socket and the listening socket are
\* closed, the registry is empty and run_server has left the accept loop
\* and returned.
ShutdownCompletes == ShutdownMidRound ~> AllDown

\* C13: once stop_evt is set no step adds a connection to the registry and
\* no step starts a session worker.
NoAcceptAfterShutdown ==
    [][stop_evt =>
          /\ sockets_set' \subseteq sockets_set
          /\ \A w \in Conns : w_pc[w] = "none" => w_pc'[w] = "none"]_vars

\* C14: the shutdown message is never printed twice, and a server that has
\* shut down has printed it.
ShutdownPrintedOnce ==
    /\ printed <= 1
    /\ mpc = "done" => printed = 1

\* the ways handle_client ends
Exits == {"finished", "bad_request", "zero_rounds", "no_request",
          "disconnected", "quiet"}

\* C15: whenever handle_client has returned, on any exit path, the socket of
\* its connection is closed and the connection is not in the registry.
SocketReleasedOnExit ==
    \A w \in Conns :
        w_pc[w] = "done" =>
            /\ w_exit[w] \in Exits
            /\ w_conn[w] = "closed"
            /\ w \notin sockets_set

\* one worker has returned after a whole session and another after a
\* shutdown that had emptied the registry before its finally block ran
SocketReleasedOnExitWitness ==
    /\ stop_evt /\ frames = <<>> /\ sockets_set = {}
    /\ \E w \in Conns : w_pc[w] = "done" /\ w_exit[w] = "finished"
    /\ \E w \in Conns : w_pc[w] = "done" /\ w_exit[w] \in {"quiet", "no_request"}

\* the exits of handle_client after an I/O failure: no Request arrived, or
\* an exception left play_one_round (reported unless stop_evt is set)
FailureExits == {"no_request", "disconnected", "quiet"}

\* this step is the failure of session w: the worker leaves its session for
\* the finally block, or runs the finally block after a failure
FailsIn(w) ==
    /\ w_exit'[w] \in FailureExits
    /\ \/ w_pc[w] \notin {"finally", "done"} /\ w_pc'[w] = "finally"
       \/ w_pc[w] = "finally" /\ w_pc'[w] = "done"

\* everything of session v stays as it is in this step
SessionUntouched(v) ==
    /\ w_game'[v] = w_game[v]
    /\ w_r'[v] = w_r[v] /\ w_rounds'[v] = w_rounds[v]
    /\ w_pc'[v] = w_pc[v] /\ w_sent'[v] = w_sent[v]
    /\ w_conn'[v] = w_conn[v]
    /\ w_log'[v] = w_log[v] /\ w_exit'[v] = w_exit[v]
    /\ (v \in sockets_set') = (v \in sockets_set)

\* C16: an I/O failure in one session leaves every other session's game,
\* round index, connection and registry entry unchanged, does not set
\* stop_evt and does not move the accept loop.
FailureIsLocal ==
    [][\A w \in Conns :
          FailsIn(w) =>
              /\ \A v \in Conns \ {w} : SessionUntouched(v)
              /\ stop_evt' = stop_evt
              /\ listener' = listener
              /\ mpc' = mpc /\ frames' = frames /\ m_conn' = m_conn]_vars

\* one session has failed and returned while another is in a round with
\* its game, and the accept loop is running
FailureIsLocalWitness ==
    /\ ~stop_evt /\ mpc = "loop" /\ listener = "open"
    /\ \E w \in Conns : \E v \in Conns \ {w} :
          /\ w_pc[w] = "done" /\ w_exit[w] = "disconnected"
          /\ w_pc[v] = "dec_wait" /\ w_r[v] = 2
          /\ w_game[v] # NoGame /\ Len(w_game[v].player) >= 3
          /\ v \in sockets_set /\ w_conn[v] = "open"

\* the exits of handle_client on a first message that is no valid Request:
\* wrong cookie or type, or no full Request before the connection ended
Abandoned == {"bad_request", "no_request"}

\* C17: a connection whose first message has a wrong cookie or type, or that
\* ends before a full Request, is abandoned silently: no round, no payload,
\* no log line; it is closed and out of the registry once handle_client has
\* returned, and the step that abandons it leaves the accept loop as it is.
AbandonedSilently ==
    [][\A w \in Conns :
          /\ w_exit'[w] \in Abandoned =>
                /\ w_r'[w] = 0 /\ w_game'[w] = NoGame
                /\ w_sent'[w] = 0
                /\ w_log'[w] = <<>>
                /\ w_pc'[w] \in {"finally", "done"}
                /\ w_pc'[w] = "done" => w_conn'[w] = "closed" /\ w \notin sockets_set'
          /\ (w_exit[w] = "running" /\ w_exit'[w] \in Abandoned) =>
                /\ w_pc[w] \in {"req_check", "req_wait"}
                /\ mpc' = mpc /\ frames' = frames /\ m_conn' = m_conn
                /\ listener' = listener /\ stop_evt' = stop_evt]_vars

\* one connection sent a wrong header and another closed before its Request;
\* both workers have returned and the accept loop is still running
AbandonedSilentlyWitness ==
    /\ ~stop_evt /\ mpc = "loop" /\ listener = "open"
    /\ \E w \in Conns : w_pc[w] = "done" /\ w_exit[w] = "bad_request"
    /\ \E w \in Conns : w_pc[w] = "done" /\ w_exit[w] = "no_request"

\* C19: every datagram the broadcaster sends is one Offer with the port of
\* the listening socket; each sendto, failed or not, is followed by the
\* interval wait and the loop test; the loop ends only with stop_evt set;
\* until then another sendto always comes, also after a failed one; and
\* once stop_evt is set the loop ends and the UDP socket is closed.
OffersUntilShutdown ==
    /\ [](air # <<>> => Head(air) = OfferMsg(MAGIC_COOKIE, MSG_OFFER, port))
    /\ [](l_offer # None => l_offer.server_port = port)
    /\ [](udp = "closed" => bpc = "done" /\ stop_evt)
    /\ [][bpc = "send" /\ bpc' # "send" => bpc' = "wait"]_vars
    /\ [][bpc = "wait" /\ bpc' # "wait" => bpc' = "check"]_vars
    /\ [][bpc # "close" /\ bpc' = "close" => bpc = "check" /\ stop_evt]_vars
    /\ (~stop_evt ~> (bpc = "send" \/ stop_evt))
    /\ ((bpc = "wait" /\ b_last = "failed") ~> (bpc = "send" \/ stop_evt))
    /\ (stop_evt ~> (bpc = "done" /\ udp = "closed"))

\* the client has heard an Offer, a later sendto failed, and after the
\* shutdown the loop has ended with the socket closed
OffersUntilShutdownWitness ==
    /\ stop_evt /\ bpc = "done" /\ udp = "closed"
    /\ b_last = "failed"
    /\ l_offer # None

\* the receiver at position pc is in its session or loop
Running(pc) == pc \notin {"finally", "done"}

\* C18: a full-size message with a wrong cookie or type tag is discarded by
\* each of the four receivers: the step that reads it leaves the receiver
\* running, with its hands, game and round as they were (Offer on the
\* client, Card Payload on the client, Request and Decision on the server).
NoiseDiscarded ==
    /\ [][(cpc = "listen" /\ air # <<>> /\ air' = <<>> /\ IsNoise(Head(air), MSG_OFFER)) =>
             cpc' = "listen" /\ l_offer' = l_offer]_vars
    /\ [][(s2c # <<>> /\ s2c' = Tail(s2c) /\ IsNoise(Head(s2c), MSG_PAYLOAD)) =>
             /\ Running(cpc')
             /\ player_hand' = player_hand /\ dealer_hand' = dealer_hand
             /\ c_r' = c_r /\ tcp' = tcp]_vars
    /\ [][(c2s # <<>> /\ c2s' = Tail(c2s)
             /\ IsNoise(Head(c2s), IF spc = "req_wait" THEN MSG_REQUEST ELSE MSG_PAYLOAD)) =>
             /\ Running(spc')
             /\ game' = game /\ round_idx' = round_idx /\ conn' = conn]_vars

\* the points of a hand with every ace counted 11, and with every ace
\* counted 1; face cards count 10 and the others their number
RECURSIVE PointsWith(_, _)
PointsWith(cards, ace) ==
    IF cards = <<>> THEN 0
    ELSE LET v == Head(cards).value
             p == IF v = "A" THEN ace
                  ELSE IF v \in {"J", "Q", "K"} THEN 10
                  ELSE CHOOSE n \in 2..10 : VALUES[n] = v
         IN  p + PointsWith(Tail(cards), ace)

\* the totals of a hand over all 1-or-11 choices for its aces
Totals(cards) ==
    LET aces == Cardinality({n \in 1..Len(cards) : cards[n].value = "A"})
    IN  {PointsWith(cards, 1) + 10 * k : k \in 0..aces}

\* the largest total not above 21, or the all-aces-as-1 total if none
BestTotal(cards) ==
    LET ok == {t \in Totals(cards) : t <= 21}
    IN  IF ok # {} THEN CHOOSE t \in ok : \A u \in ok : u <= t
        ELSE PointsWith(cards, 1)

\* C20: for every hand calculate_value returns the undemoted sum (faces 10,
\* aces 11) less 10 per demoted ace, with the fewest demotions that bring it
\* to 21 or less when some choice does: the largest total not above 21 over
\* the 1-or-11 choices, or the all-aces-as-1 total; never above the
\* undemoted sum.
HandValueLaw ==
    h_value # -1 =>
        /\ h_value = BestTotal(h_cards)
        /\ h_value <= PointsWith(h_cards, 11)
        /\ \E k \in 0..Len(h_cards) :
              /\ h_value = PointsWith(h_cards, 11) - 10 * k
              /\ k <= Cardinality({n \in 1..Len(h_cards) : h_cards[n].value = "A"})
              /\ \A j \in 0..(k - 1) : PointsWith(h_cards, 11) - 10 * j > 21

\* the value of a hand of two aces and a nine has been computed: one ace is
\* demoted and the other is not
HandValueLawWitness ==
    /\ h_value = 21
    /\ Len(h_cards) = 3
    /\ Cardinality({n \in 1..3 : h_cards[n].value = "A"}) = 2

\* the rank and the suit code the protocol gives a card: A=1, 2..10, J=11,
\* Q=12, K=13 and Hearts=0, Diamonds=1, Clubs=2, Spades=3
WireRank(c) ==
    CHOOSE r \in 1..13 : <<"A", "2", "3", "4", "5", "6", "7", "8", "9", "10", "J", "Q", "K">>[r] = c.value
WireSuit(c) ==
    CHOOSE k \in 0..3 : <<"Hearts", "Diamonds", "Clubs", "Spades">>[k + 1] = c.suit

\* a card that went through card_to_wire and card_from_wire is the same
\* card, and went as its protocol rank and suit code
CardRoundTrip ==
    k_back # NoCardBack =>
        /\ k_back = k_card
        /\ k_wire = <<WireRank(k_card), WireSuit(k_card)>>

\* UTF-8 bytes of a name: one per character, two for the wide one
ByteLen(name) == Len(name) + Cardinality({n \in 1..Len(name) : name[n] = WIDE})

\* C21 as stated: a card comes back the same through its protocol rank and
\* suit code; a name of at most the field's bytes comes back the same, and a
\* longer one comes back as its first bytes, as many as the field holds.
CodecRoundTrip ==
    /\ CardRoundTrip
    /\ n_back # NotDecoded =>
          IF ByteLen(n_name) <= NameLen
          THEN n_back = n_name
          ELSE Encode(n_back) = SubSeq(Encode(n_name), 1, NameLen)

\* the longest prefix of a name, in whole characters, that has no zero byte
\* and whose UTF-8 bytes fit the field
FittingPrefix(name) ==
    LET fits == {k \in 0..Len(name) :
                    /\ \A n \in 1..k : name[n] # NUL
                    /\ ByteLen(SubSeq(name, 1, k)) <= NameLen}
    IN  SubSeq(name, 1, CHOOSE k \in fits : \A j \in fits : j <= k)

\* C21, amended: the card part as stated; a name comes back as its longest
\* prefix of whole characters that has no zero byte and fits the field, so
\* a name without zero byte that fits comes back the same.
CodecRoundTripWhole ==
    /\ CardRoundTrip
    /\ n_back # NotDecoded =>
          /\ n_back = FittingPrefix(n_name)
          /\ ((\A n \in 1..Len(n_name) : n_name[n] # NUL) /\ ByteLen(n_name) <= NameLen)
                => n_back = n_name

\* a king came back, and a name without zero byte whose wide character
\* straddles the end of the field came back shorter than the field
CodecRoundTripWholeWitness ==
    /\ k_back = k_card /\ k_card # None /\ k_card.value = "K" /\ k_card.suit = "Spades"
    /\ n_back # NotDecoded /\ n_back # <<>>
    /\ \A n \in 1..Len(n_name) : n_name[n] # NUL
    /\ ByteLen(n_name) > NameLen
    /\ ByteLen(n_back) < NameLen

\* the cards of a sequence, as a set
CardsOf(cards) == {cards[n] : n \in 1..Len(cards)}

\* the 52 (rank, suit) pairs
AllCards ==
    {[value |-> v, suit |-> s] :
        v \in {"A", "2", "3", "4", "5", "6", "7", "8", "9", "10", "J", "Q", "K"},
        s \in {"Hearts", "Diamonds", "Clubs", "Spades"}}

\* no card twice in a sequence
NoRepeat(cards) == Cardinality(CardsOf(cards)) = Len(cards)

\* C22: in every state of a round the player hand, the dealer hand and the
\* remaining deck are pairwise disjoint and together hold each of the 52
\* (rank, suit) pairs exactly once; a round starts from the full deck, four
\* cards of it dealt.
DeckIntegrity ==
    /\ [](game # NoGame =>
            /\ NoRepeat(game.deck) /\ NoRepeat(game.player) /\ NoRepeat(game.dealer)
            /\ CardsOf(game.deck) \cap CardsOf(game.player) = {}
            /\ CardsOf(game.deck) \cap CardsOf(game.dealer) = {}
            /\ CardsOf(game.player) \cap CardsOf(game.dealer) = {}
            /\ CardsOf(game.deck) \cup CardsOf(game.player) \cup CardsOf(game.dealer) = AllCards
            /\ Cardinality(AllCards) = 52)
    /\ [][(game = NoGame /\ game' # NoGame) =>
            /\ Len(game'.deck) + Len(game'.player) + Len(game'.dealer) = 52
            /\ Len(game'.player) = 2 /\ Len(game'.dealer) = 2]_vars

\* the second round of a session, with cards drawn by both sides
DeckIntegrityWitness ==
    /\ round_idx = 2
    /\ game # NoGame
    /\ Len(game.player) >= 4 /\ Len(game.dealer) >= 3
    /\ Len(game.deck) <= 45

\* the call of _shutdown at depth d of the main thread's stack waits for
\* sockets_lock
FrameWaits(d) == Len(frames) >= d /\ frames[d] = "lock"

\* the newest call on the main thread waits for a lock that the code it
\* interrupted, on the same thread, holds
SelfBlocked == frames # <<>> /\ Top = "lock" /\ sockets_lock = "main"

\* C23: no acquisition of sockets_lock waits forever: the main thread never
\* waits for a lock it holds itself, and the accept loop, every call of
\* _shutdown and every worker's finally block that reach "with sockets_lock"
\* get the lock.
LockAlwaysGranted ==
    /\ []~SelfBlocked
    /\ (mpc = "lock") ~> (mpc = "add")
    /\ \A d \in 1..(MaxSigints + 1) : FrameWaits(d) ~> ~FrameWaits(d)
    /\ \A w \in Conns : (w_pc[w] = "finally") ~> (w_pc[w] = "done")

\* the client reads the payload at the head of the stream in this step
ClientReads == s2c # <<>> /\ s2c' = Tail(s2c)

\* C24: the payload the server sends is the sentinel (rank 0, suit 0) if
\* and only if it is the final comparison-result message of the round, and
\* then its result is TIE, LOSS or WIN; any other payload carries a card of
\* the game, rank in 1..13 and suit in 0..3; and the client adds one card,
\* the one carried, to a hand for a payload of non-zero rank and none for
\* the sentinel.
SentinelOnlyFinal ==
    /\ [][Sends =>
            LET msg == Last(sent')
            IN  /\ IsSentinel(msg) <=> spc = "send_final"
                /\ msg.rank = 0 <=> IsSentinel(msg)
                /\ IsSentinel(msg) => msg.result \in {RESULT_TIE, RESULT_LOSS, RESULT_WIN}
                /\ ~IsSentinel(msg) =>
                      /\ msg.rank \in 1..13 /\ msg.suit \in 0..3
                      /\ \E c \in CardsOf(game.player) \cup CardsOf(game.dealer) : Carries(msg, c)]_vars
    /\ [][ClientReads =>
            LET msg == Head(s2c)
                before == player_hand \o dealer_hand
                after == player_hand' \o dealer_hand'
            IN  IF msg.rank # 0
                THEN /\ Len(after) = Len(before) + 1
                     /\ \/ player_hand' = Append(player_hand, card_from_wire(msg.rank, msg.suit))
                        \/ dealer_hand' = Append(dealer_hand, card_from_wire(msg.rank, msg.suit))
                ELSE after = before]_vars

\* the client has read the sentinel that ends a round in which the player
\* hit and the dealer drew
SentinelOnlyFinalWitness ==
    /\ cpc = "for_loop" /\ played >= 1
    /\ result \in {RESULT_TIE, RESULT_LOSS, RESULT_WIN}
    /\ Len(player_hand) >= 3 /\ Len(dealer_hand) >= 3
    /\ closed # <<>> /\ IsSentinel(Last(Last(closed).sent))

\* the server takes a Decision that reads as a hit in this step
TakesHit == spc = "dec_wait" /\ decided' # decided /\ Last(decided') = Hittt

\* the dealer loop runs its body in this step
DealerDrawsNow == spc = "dealer_loop" /\ spc' # spc /\ ~stop_evt /\ should_hit(game.dealer)

\* C25: the deck is never exhausted within a round: deal_card never returns
\* None in start_game, player_hit or dealer_hit, so a hit always goes on to
\* send its card and a dealer draw always goes on to send its card; the
\* branches of play_one_round that leave a turn for want of a card are
\* never taken.
DeckNeverExhausted ==
    /\ [](game # NoGame =>
            /\ Len(game.deck) > 0
            /\ \A c \in CardsOf(game.player) \cup CardsOf(game.dealer) : c # None)
    /\ [][TakesHit => player_hit(game).card # None /\ card' # None /\ spc' = "send_hit"]_vars
    /\ [][DealerDrawsNow => dealer_hit(game).card # None /\ card' # None /\ spc' = "send_dealer"]_vars

\* the dealer has just drawn in a round where the player hit twice: the
\* seventh card or a later one has left the deck
DeckNeverExhaustedWitness ==
    /\ spc = "send_dealer" /\ card # None
    /\ Len(game.player) >= 4 /\ Len(game.dealer) >= 3
    /\ Len(game.deck) = 52 - Len(game.player) - Len(game.dealer)

\* the server is at the recv of a Decision, or on its way there
AwaitsDecision == spc \in {"loop", "dec_check", "dec_wait"}

\* the client is at the recv of a payload
AwaitsPayload == cpc \in {"recv_initial", "recv_first", "recv_dealer"}

\* each side waits for the other and nothing is on its way
SessionDeadlock == AwaitsDecision /\ AwaitsPayload /\ c2s = <<>> /\ s2c = <<>>

\* a step that only a failure allows can be taken
FailurePossible ==
    \/ ENABLED SRecvNone \/ ENABLED SSendFails
    \/ ENABLED CRecvNone \/ ENABLED CSendFails

\* both ends have left the session after playing every round asked for
SessionComplete ==
    /\ cpc = "done" /\ played = c_rounds
    /\ spc = "done" /\ outcome = "finished" /\ round_idx = c_rounds /\ Len(closed) = 0

\* C26: with no I/O failure and no shutdown the session never deadlocks:
\* no state has the server waiting for a Decision and the client waiting
\* for a payload with nothing in flight (and no failure step is ever
\* possible); after every Decision the client sends it is eventually asked
\* for the next one or receives the payload that ends the round; every
\* round completes on both ends, and so does the session of N rounds.
NoSessionDeadlock ==
    /\ []~SessionDeadlock
    /\ []~FailurePossible
    /\ \A n \in 0..(MaxRounds - 1) :
          (cpc = "recv_first" /\ played = n)
              ~> (cpc = "ask" \/ (played = n + 1 /\ result # RESULT_NOT_OVER))
    /\ \A r \in 1..MaxRounds :
          (cpc = "recv_initial" /\ c_r = r) ~> (played >= r)
    /\ \A r \in 1..MaxRounds :
          (spc = "start_round" /\ round_idx = r) ~> (round_idx > r \/ outcome = "finished")
    /\ <>[]SessionComplete

\* a session of two rounds is over on both ends, the player having won one
\* of them at least
NoSessionDeadlockWitness ==
    /\ cpc = "done" /\ spc = "done" /\ outcome = "finished"
    /\ c_rounds = 2 /\ played = 2 /\ wins >= 1

====
